---- MODULE Spec2Model ----
\* Verification model of the elevo state-machine engine
\* (createMachine of packages/core/src/index.ts in its successive versions).
\*
\*   Spec      the current engine: clearOnExit, dynamic overrides, wildcard
\*             entry watchers (transition(event) takes no context)
\*   SpecCore  the earlier engine that still has currentState.transition(event,
\*             context)
\*   SpecCreate  the constructor, from the builder's result to the machine
\*   SpecPair    two machines built from the same definition and id
\*   SpecReact   the current engine with components calling useMachine
\*   SpecCancel  the current engine with callbacks that call unsubscribe handles
\*
\* and of the command line tool around it (packages/cli):
\*
\*   SpecServer   VisualizerServer and the visualizer pages connected to it
\*   SpecCache    CacheManager
\*   SpecWatcher  FileWatcher with its suspended handlers
\*   SpecInTurn   FileWatcher when every handler finishes before the next event
\*
\* A JS object used as a dictionary (Record<string, X>) is a function whose
\* DOMAIN is the set of keys present; a missing key reads as Undefined.
EXTENDS Integers, Sequences, FiniteSets, TLC

VARIABLES
    stateDefinitions,   \* the builder's result, fixed at construction
    stateMap,           \* Map name -> StateDefinition
    transitionMap,      \* Map name -> Map event -> target
    currentState,
    globalContext,
    globalLocked,
    privateContexts,    \* Record state -> context
    entryWatchers,      \* Record state | "__global__" -> array of callbacks
    exitWatchers,       \* Record state -> array of callbacks
    dynamicClearOnExit, \* Record event -> boolean
    handles,            \* the unsubscribe closures handed out so far
    reenterArmed,       \* local flag of the re-entering callback (fires once)
    firstGlobal,        \* history: argument of the first setGlobalOnly call
    overrideCalls,      \* history: event -> argument of the last setClearContextOnExit call
    steps,              \* history: number of calls made so far
    lastOp,             \* history: the transition or setGlobalOnly call that has
                        \* just returned, NoOp after any other call (for a
                        \* transition: the event, the state it was called in,
                        \* that state's context, whether the guard passed,
                        \* the assignments made to currentState)
    calls,              \* history: callback invocations made by that call, in order
    peer,               \* a second machine built by another createMachine call
    reactiveProxies,    \* useMachine: the valtio proxy of each mounted component
    \* the command line tool (packages/cli) and the visualizer page
    token,              \* VisualizerServer.token
    wss,                \* VisualizerServer.wss: null or the listening server
    currentStates,      \* VisualizerServer.currentStates
    sockets,            \* per visualizer page: its connection, the messages in
                        \* flight in both directions and the useWebSocket state
    cacheDir,           \* CacheManager: the files of the cache directory
    clock,              \* Date.now(); it advances with each updateStates call
                        \* (SpecServer) or file system event (SpecWatcher)
    saved,              \* history: the saveCache calls made so far, oldest first
    disk,               \* the *.state.ts files under the watched path
    watcherStates,      \* FileWatcher.currentStates
    handlers,           \* handleFileChange calls suspended at their await
    scan,               \* initialScan: where it is suspended, what it parsed
    published,          \* the last array passed to saveCache and onUpdate
    latest              \* history: per file, what its latest event was

engineVars == <<stateDefinitions, stateMap, transitionMap, currentState, globalContext,
                globalLocked, privateContexts, entryWatchers, exitWatchers,
                dynamicClearOnExit, handles, reenterArmed, firstGlobal, overrideCalls,
                steps, lastOp, calls, peer, reactiveProxies>>

serverVars == <<token, wss, currentStates, sockets>>
cacheVars == <<cacheDir, saved>>
watcherVars == <<disk, watcherStates, handlers, scan, published, latest>>
cliVars == <<serverVars, cacheVars, watcherVars, clock>>

vars == <<engineVars, cliVars>>

\* ---------------------------------------------------------------- bounds
MaxSteps == 4       \* calls made on one machine per run
MaxRegs == 2        \* watcher registrations per run
MaxDepth == 3       \* nesting of transition calls made from inside watchers
MaxCtxWrites == 2   \* keys a run may hold in privateContexts through setContext
MaxDeclarations == 3 \* state declarations a builder returns (construction only)

\* ---------------------------------------------------------------- values
Undefined == "undefined"
EmptyObject == "{}"
watchEntryGlobalHook == "__global__"

Events == {"NEXT", "SKIP"}
EventInputs == Events \cup {"INVALID"}
ContextValues == {"c1", "c2"}
GlobalValues == {"{user:will}", "{user:changed}"}

\* Callbacks handed to watchEntry / watchExit / watchEntryGlobal.
\*   mock     records its invocation and returns (jest.fn())
\*   thrower  records its invocation and throws
\*   reenter  records its invocation and, the first time only, calls
\*            machine.transition(ReenterEvent)
\*   canceller  records its invocation and calls the unsubscribe handle of
\*            the registration made right after its own (only handed out in
\*            SpecCancel)
Callbacks == {"w1", "w2", "thrower", "reenter"}
ReenterEvent == "NEXT"
Behaviour(fn) ==
    CASE fn = "thrower" -> "throw"
      [] fn = "reenter" -> "reenter"
      [] fn = "canceller" -> "cancel"
      [] OTHER -> "mock"

EmptyRecord == [k \in {} |-> Undefined]

\* Map.set / obj[k] = v
MapSet(m, k, v) == [x \in (DOMAIN m) \cup {k} |-> IF x = k THEN v ELSE m[x]]
\* delete obj[k]
MapDelete(m, k) == [x \in (DOMAIN m) \ {k} |-> m[x]]
\* obj[k] for a dictionary of strings
MapGet(m, k) == IF k \in DOMAIN m THEN m[k] ELSE Undefined
\* obj[k] for a dictionary of arrays, as used by obj[k]?.forEach
ListGet(m, k) == IF k \in DOMAIN m THEN m[k] ELSE <<>>

\* JS truthiness of a string | undefined
Truthy(s) == s # Undefined /\ s # ""

\* ---------------------------------------------------------------- builder
on(event, target) == [event |-> event, target |-> target]

\* the `state` helper handed to the builder; options as passed by the caller
state(name, transitions, options) ==
    [name |-> name, transitions |-> transitions, options |-> options]

\* the default value of the options parameter
DefaultOptions == [clearOnExit |-> FALSE]

\* Builder results. State names are unique inside one machine.
EditorDefinition ==
    << state("start", <<on("NEXT", "middle"), on("SKIP", "end")>>, DefaultOptions),
       state("middle", <<on("NEXT", "end"), on("SKIP", "start")>>, [clearOnExit |-> TRUE]),
       state("end", <<on("SKIP", "start")>>, [clearOnExit |-> FALSE]) >>

\* a repeated event, an edge to a state that was never declared, a sink
\* declared with an options object that has no clearOnExit
DuplicateDefinition ==
    << state("start", <<on("NEXT", "middle"), on("NEXT", "end"), on("SKIP", "ghost")>>,
             [clearOnExit |-> TRUE]),
       state("end", <<>>, EmptyRecord) >>

\* a self loop and a state whose name is the empty string
LoopDefinition ==
    << state("start", <<on("NEXT", "end"), on("SKIP", "start")>>, [clearOnExit |-> TRUE]),
       state("end", <<on("NEXT", ""), on("SKIP", "start")>>, DefaultOptions),
       state("", <<on("NEXT", "start")>>, DefaultOptions) >>

\* a fork: two edges out of the first state into two sinks
ForkDefinition ==
    << state("start", <<on("NEXT", "middle"), on("SKIP", "end")>>, DefaultOptions),
       state("middle", <<>>, DefaultOptions),
       state("end", <<>>, DefaultOptions) >>

Definitions == {EditorDefinition, DuplicateDefinition, LoopDefinition, ForkDefinition}

StateNames == {"start", "middle", "end", "", "ghost"}

DeclaredNames(defs) == {defs[i].name : i \in 1..Len(defs)}

\* stateDefinitions.forEach(stateDef => stateMap.set(stateDef.name, stateDef))
RECURSIVE BuildStateMap(_, _, _)
BuildStateMap(defs, i, m) ==
    IF i > Len(defs) THEN m
    ELSE BuildStateMap(defs, i + 1, MapSet(m, defs[i].name, defs[i]))

\* the first declaration of an event is kept
set_firstWins(transitions, t) ==
    IF t.event \in DOMAIN transitions THEN transitions
    ELSE MapSet(transitions, t.event, t.target)

\* transitions.set(transition.event, transition.target)
set(transitions, t) == MapSet(transitions, t.event, t.target)

\* stateDef.transitions.forEach(t => transitions.set(t.event, t.target))
RECURSIVE BuildTransitions(_, _, _)
BuildTransitions(ts, i, m) ==
    IF i > Len(ts) THEN m
    ELSE BuildTransitions(ts, i + 1, set(m, ts[i]))

RECURSIVE BuildTransitionMap(_, _, _)
BuildTransitionMap(defs, i, m) ==
    IF i > Len(defs) THEN m
    ELSE BuildTransitionMap(defs, i + 1,
            MapSet(m, defs[i].name, BuildTransitions(defs[i].transitions, 1, EmptyRecord)))

\* the last declared state instead of the first
initialState_last(defs) == defs[Len(defs)].name

initialState(defs) == defs[1].name

\* currentStateDef?.options?.clearOnExit ?? false
StaticClearOnExit(stateDef) ==
    IF "clearOnExit" \in DOMAIN stateDef.options THEN stateDef.options.clearOnExit ELSE FALSE

\* ---------------------------------------------------------------- queries
\* answers for the state alone
can_anyEvent(s, event) == s \in DOMAIN transitionMap

\* answers for the state the machine is in
can_fromCurrent(s, event) ==
    IF currentState \in DOMAIN transitionMap
    THEN event \in DOMAIN transitionMap[currentState]
    ELSE FALSE

\* transitions?.has(event) || false
can(s, event) ==
    IF s \in DOMAIN transitionMap THEN event \in DOMAIN transitionMap[s] ELSE FALSE

getContext(s) == MapGet(privateContexts, s)

context == MapGet(privateContexts, currentState)

current == currentState

\* the id passed to createMachine; the engine only hands it back
MachineIds == {"editor", "test"}

\* stateDef.transitions.forEach(t => { on[t.event] = t.target; })
RECURSIVE ExportOn(_, _, _)
ExportOn(ts, i, onRecord) ==
    IF i > Len(ts) THEN onRecord
    ELSE ExportOn(ts, i + 1, MapSet(onRecord, ts[i].event, ts[i].target))

\* stateDefinitions.forEach(stateDef => { states[stateDef.name] = { on }; })
RECURSIVE ExportStates(_, _, _)
ExportStates(defs, i, states) ==
    IF i > Len(defs) THEN states
    ELSE ExportStates(defs, i + 1,
            MapSet(states, defs[i].name, [on |-> ExportOn(defs[i].transitions, 1, EmptyRecord)]))

\* the export names the state the machine is in
toXStateJSON_current(id) ==
    [id |-> id, initial |-> currentState,
     states |-> ExportStates(stateDefinitions, 1, EmptyRecord)]

\* return { id, initial: initialState, states }
toXStateJSON(id) ==
    [id |-> id, initial |-> initialState(stateDefinitions),
     states |-> ExportStates(stateDefinitions, 1, EmptyRecord)]

NoOp == [op |-> "none", event |-> Undefined, from |-> Undefined, ok |-> FALSE,
         threw |-> FALSE, warned |-> FALSE, arg |-> Undefined,
         held |-> Undefined, heldTarget |-> Undefined, moves |-> <<>>]

\* no second machine was built
NoMachine == [id |-> 0]

\* the command line tool was not started
Null == "null"
CliOff ==
    /\ token = Null
    /\ wss = Null
    /\ currentStates = <<>>
    /\ sockets = <<>>
    /\ cacheDir = EmptyRecord
    /\ clock = 0
    /\ saved = <<>>
    /\ disk = EmptyRecord
    /\ watcherStates = EmptyRecord
    /\ handlers = <<>>
    /\ scan = Null
    /\ published = Null
    /\ latest = EmptyRecord

Init ==
    /\ stateDefinitions \in Definitions
    /\ stateMap = BuildStateMap(stateDefinitions, 1, EmptyRecord)
    /\ transitionMap = BuildTransitionMap(stateDefinitions, 1, EmptyRecord)
    /\ currentState = initialState(stateDefinitions)
    /\ globalContext = EmptyObject
    /\ globalLocked = FALSE
    /\ privateContexts = EmptyRecord
    /\ entryWatchers = EmptyRecord
    /\ exitWatchers = EmptyRecord
    /\ dynamicClearOnExit = EmptyRecord
    /\ handles = <<>>
    /\ reenterArmed = TRUE
    /\ firstGlobal = Undefined
    /\ overrideCalls = EmptyRecord
    /\ steps = 0
    /\ lastOp = NoOp
    /\ calls = <<>>
    /\ peer = NoMachine
    /\ CliOff
    /\ reactiveProxies = EmptyRecord

Tick == steps < MaxSteps /\ steps' = steps + 1

\* ---------------------------------------------------------------- transition
\* The part of the machine a transition call (and the watchers it runs) works
\* on, plus what the call did: the invocations made, the number of transition
\* calls entered, whether an exception is propagating. engine tells which
\* createMachine built the machine, hence what machine.transition is for a
\* callback that calls it.
Frame(engine, cs, pc, armed) ==
    [engine |-> engine, currentState |-> cs, privateContexts |-> pc, armed |-> armed,
     entryWatchers |-> entryWatchers, exitWatchers |-> exitWatchers, handles |-> handles,
     calls |-> <<>>, moves |-> <<>>, frames |-> 0, threw |-> FALSE, overflow |-> FALSE]

\* what the callback does when it is called
Does(fn, m) ==
    CASE Behaviour(fn) = "throw" -> "throw"
      [] Behaviour(fn) = "reenter" /\ m.armed -> "reenter"
      [] Behaviour(fn) = "cancel" -> "cancel"
      [] OTHER -> "return"

\* kind, id, fn: which callback; frame: the transition call that invoked it;
\* ctx, state: the arguments it was passed; cur: machine.current at that time;
\* unsubscribed: its unsubscribe handle had been called by then
Invocation(kind, w, m, frame) ==
    [kind |-> kind, id |-> w.id, fn |-> w.fn, frame |-> frame,
     ctx |-> MapGet(m.privateContexts, m.currentState),
     state |-> IF kind = "global" THEN m.currentState ELSE Undefined,
     cur |-> m.currentState, did |-> Does(w.fn, m),
     unsubscribed |-> m.handles[w.id].called]

\* transitions?.get(event)
targetOf(cs, event) ==
    IF cs \in DOMAIN transitionMap THEN MapGet(transitionMap[cs], event) ELSE Undefined

\* the target's declaration is not looked up
accepts_anyTarget(target) == Truthy(target)

\* target && stateMap.has(target)
accepts(target) == Truthy(target) /\ target \in DOMAIN stateMap

\* dynamicClearOnExit[event] !== undefined ? dynamicClearOnExit[event]
\*     : currentStateDef?.options?.clearOnExit ?? false
shouldClearContext(event, currentStateDef) ==
    IF event \in DOMAIN dynamicClearOnExit
    THEN dynamicClearOnExit[event]
    ELSE StaticClearOnExit(currentStateDef)

\* if (shouldClearContext) delete privateContexts[currentState]
clearContext(m, shouldClear) ==
    IF shouldClear
    THEN [m EXCEPT !.privateContexts = MapDelete(@, m.currentState)]
    ELSE m

\* the assignment to currentState is lost
enter_stay(m, target) == m

\* currentState = target
enter(m, target) ==
    [m EXCEPT !.currentState = target,
              !.moves = Append(@, [from |-> m.currentState, to |-> target])]

\* the context is stored under the state being left
writeContext_source(m, target, ctx) ==
    IF ctx # Undefined
    THEN [m EXCEPT !.privateContexts = MapSet(@, m.currentState, ctx)]
    ELSE m

\* if (context !== undefined) privateContexts[target] = context
writeContext(m, target, ctx) ==
    IF ctx # Undefined
    THEN [m EXCEPT !.privateContexts = MapSet(@, target, ctx)]
    ELSE m

\* the refused call drops the stored contexts
warn_clears(m) == [m EXCEPT !.privateContexts = EmptyRecord]

\* else { console.warn(`currentState is ..., cannot transition to ...`) }
warn(m) == m

\* array.filter(f => f !== fn)
RECURSIVE filterOut(_, _)
filterOut(list, fn) ==
    IF list = <<>> THEN <<>>
    ELSE IF Head(list).fn # fn THEN <<Head(list)>> \o filterOut(Tail(list), fn)
    ELSE filterOut(Tail(list), fn)

\* () => { entryWatchers[state] = []; }
entryUnsubscribed(lists, s, fn) == MapSet(lists, s, <<>>)

\* () => { exitWatchers[state] = exitWatchers[state]?.filter(f => f !== fn) || []; }
exitUnsubscribed(lists, s, fn) == MapSet(lists, s, filterOut(ListGet(lists, s), fn))

\* calling the closure handles[i]: the one of watchEntry, of watchEntryGlobal
\* or of watchExit
unsubscribe(m, i) ==
    LET h == m.handles[i]
    IN  [m EXCEPT !.handles[i].called = TRUE,
                  !.entryWatchers =
                      CASE h.kind = "entry" -> entryUnsubscribed(@, h.state, h.fn)
                        [] h.kind = "global" -> MapSet(@, watchEntryGlobalHook, <<>>)
                        [] OTHER -> @,
                  !.exitWatchers =
                      IF h.kind = "exit" THEN exitUnsubscribed(@, h.state, h.fn) ELSE @]

\* the cancelling callback: u?.() for the handle u of the registration made
\* right after its own
cancel(m, id) == IF id + 1 <= Len(m.handles) THEN unsubscribe(m, id + 1) ELSE m

RECURSIVE transitionBody(_, _, _)
RECURSIVE core_transitionBody(_, _, _, _)
RECURSIVE forEachWatcher(_, _, _, _, _, _)

\* the call made from inside a callback is dropped
machineTransition_dropped(m, event, fuel) == m

\* machine.transition(event) called from inside a callback
machineTransition(m, event, fuel) ==
    IF m.engine = "core"
    THEN core_transitionBody(m, event, Undefined, fuel)
    ELSE transitionBody(m, event, fuel)

\* the engine swallows the exception
raise_caught(m) == m

\* fn(...) is called outside any try block: the exception leaves transition
raise(m) == [m EXCEPT !.threw = TRUE]

\* one callback invocation: fn(privateContexts[currentState]) for exit and
\* entry watchers, fn(privateContexts[currentState], currentState) for the
\* wildcard ones; the arguments are read when the callback is called
invoke(m, kind, w, frame, fuel) ==
    LET m1 == [m EXCEPT !.calls = Append(@, Invocation(kind, w, m, frame))]
    IN  CASE Does(w.fn, m) = "throw" -> raise(m1)
          [] Does(w.fn, m) = "cancel" -> cancel(m1, w.id)
          [] Does(w.fn, m) = "reenter" ->
                IF fuel = 0 THEN [m1 EXCEPT !.overflow = TRUE]
                ELSE machineTransition([m1 EXCEPT !.armed = FALSE], ReenterEvent, fuel - 1)
          [] OTHER -> m1

\* list?.forEach(fn => ...): an exception leaves the loop
forEachWatcher(m, list, i, kind, frame, fuel) ==
    IF i > Len(list) \/ m.threw \/ m.overflow THEN m
    ELSE forEachWatcher(invoke(m, kind, list[i], frame, fuel), list, i + 1, kind, frame, fuel)

transitionBody(m0, event, fuel) ==
    LET frame == m0.frames + 1
        m == [m0 EXCEPT !.frames = frame]
        target == targetOf(m.currentState, event)
    IN  IF accepts(target)
        THEN LET currentStateDef == stateMap[m.currentState]
                 m1 == forEachWatcher(m, ListGet(m.exitWatchers, m.currentState), 1,
                                      "exit", frame, fuel)
                 m2 == clearContext(m1, shouldClearContext(event, currentStateDef))
                 m3 == enter(m2, target)
                 m4 == forEachWatcher(m3, ListGet(m3.entryWatchers, m3.currentState), 1,
                                      "entry", frame, fuel)
                 m5 == forEachWatcher(m4, ListGet(m4.entryWatchers, watchEntryGlobalHook), 1,
                                      "global", frame, fuel)
             IN  IF m1.threw \/ m1.overflow THEN m1
                 ELSE IF m4.threw \/ m4.overflow THEN m4
                 ELSE m5
        ELSE warn(m)

\* The earlier engine. currentState.transition(event, context) and
\* transition(event) run the same steps; transition(event) has no context to
\* write (context = Undefined).
core_transitionBody(m0, event, ctx, fuel) ==
    LET frame == m0.frames + 1
        m == [m0 EXCEPT !.frames = frame]
        target == targetOf(m.currentState, event)
    IN  IF accepts(target)
        THEN LET m1 == forEachWatcher(m, ListGet(m.exitWatchers, m.currentState), 1,
                                      "exit", frame, fuel)
                 m2 == writeContext(m1, target, ctx)
                 m3 == enter(m2, target)
                 m4 == forEachWatcher(m3, ListGet(m3.entryWatchers, m3.currentState), 1,
                                      "entry", frame, fuel)
             IN  IF m1.threw \/ m1.overflow THEN m1 ELSE m4
        ELSE m

\* The callback useMachine hands to watchEntryGlobal:
\*   reactiveProxy.current = state; reactiveProxy.context = context
\* applied for every invocation of it the call made, in order.
RECURSIVE mirrored(_, _, _)
mirrored(proxies, invocations, k) ==
    IF k > Len(invocations) THEN proxies
    ELSE LET c == invocations[k]
         IN  mirrored(IF c.fn = "mirror"
                      THEN MapSet(proxies, c.id, [current |-> c.state, context |-> c.ctx])
                      ELSE proxies,
                      invocations, k + 1)

transition(event) ==
    LET r == transitionBody(Frame("current", currentState, privateContexts, reenterArmed),
                            event, MaxDepth)
        ok == accepts(targetOf(currentState, event))
    IN  /\ Tick
        /\ ~r.overflow
        /\ currentState' = r.currentState
        /\ privateContexts' = r.privateContexts
        /\ reenterArmed' = r.armed
        /\ calls' = r.calls
        /\ reactiveProxies' = mirrored(reactiveProxies, r.calls, 1)
        /\ lastOp' = [NoOp EXCEPT !.op = "transition", !.event = event,
                                  !.from = currentState, !.ok = ok,
                                  !.threw = r.threw, !.warned = ~ok,
                                  !.held = MapGet(privateContexts, currentState),
                                  !.moves = r.moves]
        /\ entryWatchers' = r.entryWatchers
        /\ exitWatchers' = r.exitWatchers
        /\ handles' = r.handles
        /\ UNCHANGED <<cliVars, peer, stateDefinitions, stateMap, transitionMap, globalContext,
                       globalLocked, dynamicClearOnExit, firstGlobal, overrideCalls>>

\* ---------------------------------------------------------------- contexts
\* the lock is not consulted
globalWritten_unlocked(locked, old, ctx) == ctx

\* if (!globalLocked) { globalContext = ctx; globalLocked = true; } else warn
globalWritten(locked, old, ctx) == IF ~locked THEN ctx ELSE old

\* a repeated write goes unreported
globalWarned_never(locked) == FALSE

\* else { console.warn("Global context can only be set once") }
globalWarned(locked) == locked

setGlobalOnly(ctx) ==
    /\ Tick
    /\ globalContext' = globalWritten(globalLocked, globalContext, ctx)
    /\ globalLocked' = TRUE
    /\ firstGlobal' = IF firstGlobal = Undefined THEN ctx ELSE firstGlobal
    /\ lastOp' = [NoOp EXCEPT !.op = "setGlobalOnly", !.arg = ctx,
                              !.warned = globalWarned(globalLocked)]
    /\ calls' = <<>>
    /\ UNCHANGED <<cliVars, peer, reactiveProxies,
                   stateDefinitions, stateMap, transitionMap, currentState,
                   privateContexts, entryWatchers, exitWatchers, dynamicClearOnExit,
                   handles, reenterArmed, overrideCalls>>

\* a state that holds a context keeps it
contextStored_once(pc, s, ctx) == IF s \in DOMAIN pc THEN pc ELSE MapSet(pc, s, ctx)

\* privateContexts[state] = context
contextStored(pc, s, ctx) == MapSet(pc, s, ctx)

setContext(s, ctx) ==
    /\ Tick
    /\ Cardinality((DOMAIN privateContexts) \cup {s}) <= MaxCtxWrites
    /\ privateContexts' = contextStored(privateContexts, s, ctx)
    /\ lastOp' = NoOp
    /\ calls' = <<>>
    /\ UNCHANGED <<cliVars, peer, reactiveProxies,
                   stateDefinitions, stateMap, transitionMap, currentState,
                   globalContext, globalLocked, entryWatchers, exitWatchers,
                   dynamicClearOnExit, handles, reenterArmed, firstGlobal, overrideCalls>>

setClearContextOnExit(event, shouldClear) ==
    /\ Tick
    /\ dynamicClearOnExit' = MapSet(dynamicClearOnExit, event, shouldClear)
    /\ overrideCalls' = MapSet(overrideCalls, event, shouldClear)
    /\ lastOp' = NoOp
    /\ calls' = <<>>
    /\ UNCHANGED <<cliVars, peer, reactiveProxies,
                   stateDefinitions, stateMap, transitionMap, currentState,
                   globalContext, globalLocked, privateContexts, entryWatchers,
                   exitWatchers, handles, reenterArmed, firstGlobal>>

\* ---------------------------------------------------------------- watchers
\* An array element is the callback; id tells which registration pushed it.
Watcher(id, fn) == [id |-> id, fn |-> fn]

\* the closure returned by a watch call with the variables it captured
Handle(kind, s, fn) == [kind |-> kind, state |-> s, fn |-> fn, called |-> FALSE]

\* unshift instead of push
push_front(lists, s, w) == MapSet(lists, s, <<w>> \o ListGet(lists, s))

\* if (!list[state]) list[state] = []; list[state].push(fn)
push(lists, s, w) == MapSet(lists, s, Append(ListGet(lists, s), w))

watchEntry(s, fn) ==
    /\ Tick
    /\ Len(handles) < MaxRegs
    /\ entryWatchers' = push(entryWatchers, s, Watcher(Len(handles) + 1, fn))
    /\ handles' = Append(handles, Handle("entry", s, fn))
    /\ lastOp' = NoOp
    /\ calls' = <<>>
    /\ UNCHANGED <<cliVars, peer, reactiveProxies,
                   stateDefinitions, stateMap, transitionMap, currentState,
                   globalContext, globalLocked, privateContexts, exitWatchers,
                   dynamicClearOnExit, reenterArmed, firstGlobal, overrideCalls>>

watchEntryGlobal(fn) ==
    /\ Tick
    /\ Len(handles) < MaxRegs
    /\ entryWatchers' = push(entryWatchers, watchEntryGlobalHook, Watcher(Len(handles) + 1, fn))
    /\ handles' = Append(handles, Handle("global", watchEntryGlobalHook, fn))
    /\ lastOp' = NoOp
    /\ calls' = <<>>
    /\ UNCHANGED <<cliVars, peer, reactiveProxies,
                   stateDefinitions, stateMap, transitionMap, currentState,
                   globalContext, globalLocked, privateContexts, exitWatchers,
                   dynamicClearOnExit, reenterArmed, firstGlobal, overrideCalls>>

watchExit(s, fn) ==
    /\ Tick
    /\ Len(handles) < MaxRegs
    /\ exitWatchers' = push(exitWatchers, s, Watcher(Len(handles) + 1, fn))
    /\ handles' = Append(handles, Handle("exit", s, fn))
    /\ lastOp' = NoOp
    /\ calls' = <<>>
    /\ UNCHANGED <<cliVars, peer, reactiveProxies,
                   stateDefinitions, stateMap, transitionMap, currentState,
                   globalContext, globalLocked, privateContexts, entryWatchers,
                   dynamicClearOnExit, reenterArmed, firstGlobal, overrideCalls>>

unsubscribeEntry(i) ==
    /\ Tick
    /\ handles[i].kind = "entry"
    /\ entryWatchers' = entryUnsubscribed(entryWatchers, handles[i].state, handles[i].fn)
    /\ handles' = [handles EXCEPT ![i].called = TRUE]
    /\ lastOp' = NoOp
    /\ calls' = <<>>
    /\ UNCHANGED <<cliVars, peer, reactiveProxies,
                   stateDefinitions, stateMap, transitionMap, currentState,
                   globalContext, globalLocked, privateContexts, exitWatchers,
                   dynamicClearOnExit, reenterArmed, firstGlobal, overrideCalls>>

unsubscribeEntryGlobal(i) ==
    /\ Tick
    /\ handles[i].kind = "global"
    /\ entryWatchers' = MapSet(entryWatchers, watchEntryGlobalHook, <<>>)
    /\ handles' = [handles EXCEPT ![i].called = TRUE]
    /\ lastOp' = NoOp
    /\ calls' = <<>>
    /\ UNCHANGED <<cliVars, peer, reactiveProxies,
                   stateDefinitions, stateMap, transitionMap, currentState,
                   globalContext, globalLocked, privateContexts, exitWatchers,
                   dynamicClearOnExit, reenterArmed, firstGlobal, overrideCalls>>

unsubscribeExit(i) ==
    /\ Tick
    /\ handles[i].kind = "exit"
    /\ exitWatchers' = exitUnsubscribed(exitWatchers, handles[i].state, handles[i].fn)
    /\ handles' = [handles EXCEPT ![i].called = TRUE]
    /\ lastOp' = NoOp
    /\ calls' = <<>>
    /\ UNCHANGED <<cliVars, peer, reactiveProxies,
                   stateDefinitions, stateMap, transitionMap, currentState,
                   globalContext, globalLocked, privateContexts, entryWatchers,
                   dynamicClearOnExit, reenterArmed, firstGlobal, overrideCalls>>

\* ---------------------------------------------------------------- the earlier engine
\* the `state` helper of the earlier builder context: no options
core_state(name, transitions) == [name |-> name, transitions |-> transitions]

CoreEditorDefinition ==
    << core_state("start", <<on("NEXT", "middle"), on("SKIP", "end")>>),
       core_state("middle", <<on("NEXT", "end"), on("SKIP", "start")>>),
       core_state("end", <<on("SKIP", "start")>>) >>

CoreLoopDefinition ==
    << core_state("start", <<on("NEXT", "end"), on("NEXT", "middle"), on("SKIP", "start")>>),
       core_state("middle", <<on("SKIP", "ghost")>>) >>

CoreDefinitions == {CoreEditorDefinition, CoreLoopDefinition}

\* stateDefinitions[0]?.name ?? "idle"
core_initialState(defs) == IF Len(defs) > 0 THEN defs[1].name ELSE "idle"

InitCore ==
    /\ stateDefinitions \in CoreDefinitions
    /\ stateMap = BuildStateMap(stateDefinitions, 1, EmptyRecord)
    /\ transitionMap = BuildTransitionMap(stateDefinitions, 1, EmptyRecord)
    /\ currentState = core_initialState(stateDefinitions)
    /\ globalContext = EmptyObject
    /\ globalLocked = FALSE
    /\ privateContexts = EmptyRecord
    /\ entryWatchers = EmptyRecord
    /\ exitWatchers = EmptyRecord
    /\ dynamicClearOnExit = EmptyRecord
    /\ handles = <<>>
    /\ reenterArmed = TRUE
    /\ firstGlobal = Undefined
    /\ overrideCalls = EmptyRecord
    /\ steps = 0
    /\ lastOp = NoOp
    /\ calls = <<>>
    /\ peer = NoMachine
    /\ CliOff
    /\ reactiveProxies = EmptyRecord

core_call(op, event, ctx) ==
    LET r == core_transitionBody(Frame("core", currentState, privateContexts, reenterArmed),
                                 event, ctx, MaxDepth)
        ok == accepts(targetOf(currentState, event))
    IN  /\ Tick
        /\ ~r.overflow
        /\ currentState' = r.currentState
        /\ privateContexts' = r.privateContexts
        /\ reenterArmed' = r.armed
        /\ calls' = r.calls
        /\ lastOp' = [NoOp EXCEPT !.op = op, !.event = event, !.arg = ctx,
                                  !.from = currentState, !.ok = ok,
                                  !.threw = r.threw,
                                  !.held = MapGet(privateContexts, currentState),
                                  !.heldTarget =
                                      IF ok THEN MapGet(privateContexts, targetOf(currentState, event))
                                      ELSE Undefined]
        /\ UNCHANGED <<cliVars, peer, reactiveProxies,
                       stateDefinitions, stateMap, transitionMap, globalContext,
                       globalLocked, entryWatchers, exitWatchers, dynamicClearOnExit,
                       handles, firstGlobal, overrideCalls>>

core_transition(event) == core_call("transition", event, Undefined)

currentStateProxy_transition(event, ctx) == core_call("currentState.transition", event, ctx)

\* () => { entryWatchers[state] = entryWatchers[state]?.filter(f => f !== fn) || []; }
core_entryUnsubscribed(lists, s, fn) == MapSet(lists, s, filterOut(ListGet(lists, s), fn))

core_unsubscribeEntry(i) ==
    /\ Tick
    /\ handles[i].kind = "entry"
    /\ entryWatchers' = core_entryUnsubscribed(entryWatchers, handles[i].state, handles[i].fn)
    /\ handles' = [handles EXCEPT ![i].called = TRUE]
    /\ lastOp' = NoOp
    /\ calls' = <<>>
    /\ UNCHANGED <<cliVars, peer, reactiveProxies,
                   stateDefinitions, stateMap, transitionMap, currentState,
                   globalContext, globalLocked, privateContexts, exitWatchers,
                   dynamicClearOnExit, reenterArmed, firstGlobal, overrideCalls>>

\* ---------------------------------------------------------------- React binding
\* useMachine(machine) of elevo-react, for a component that mounts: the proxy
\* built by useMemo from the machine as it is, then the effect subscribing the
\* wildcard entry watcher that writes the proxy. The effect's cleanup is the
\* handle of that registration (unsubscribeEntryGlobal).
useMachine ==
    /\ Tick
    /\ Len(handles) < MaxRegs
    /\ reactiveProxies' =
          MapSet(reactiveProxies, Len(handles) + 1,
                 [current |-> current, context |-> getContext(current)])
    /\ entryWatchers' =
          push(entryWatchers, watchEntryGlobalHook, Watcher(Len(handles) + 1, "mirror"))
    /\ handles' = Append(handles, Handle("global", watchEntryGlobalHook, "mirror"))
    /\ lastOp' = NoOp
    /\ calls' = <<>>
    /\ UNCHANGED <<cliVars, peer, stateDefinitions, stateMap, transitionMap, currentState,
                   globalContext, globalLocked, privateContexts, exitWatchers,
                   dynamicClearOnExit, reenterArmed, firstGlobal, overrideCalls>>

\* what the hook returns to the component: the snapshot of its proxy, whose
\* globalContext is a getter on the machine
useMachine_return(component) ==
    [current |-> reactiveProxies[component].current,
     context |-> reactiveProxies[component].context,
     globalContext |-> globalContext]

\* ---------------------------------------------------------------- two machines
\* Two createMachine calls with the same id and builder. The variables hold
\* the machine the caller is working on, peer holds the other one; switch is
\* the caller turning to the other machine. Both share the builder's result.

\* the watcher registries are one process-wide table
ModuleLevel_registries == {"entryWatchers", "exitWatchers"}

\* The mutable bindings declared at module scope, which every machine would
\* share: none. Module scope holds the imports and the constant
\* watchEntryGlobalHook; every let/const of a machine is inside createMachine.
ModuleLevel == {}

\* what one createMachine call allocates (with this model's bookkeeping of
\* the machine: handles, reenterArmed, firstGlobal, overrideCalls)
Instance(id, defs) ==
    [id |-> id,
     currentState |-> initialState(defs),
     globalContext |-> EmptyObject,
     globalLocked |-> FALSE,
     privateContexts |-> EmptyRecord,
     entryWatchers |-> EmptyRecord,
     exitWatchers |-> EmptyRecord,
     dynamicClearOnExit |-> EmptyRecord,
     handles |-> <<>>,
     reenterArmed |-> TRUE,
     firstGlobal |-> Undefined,
     overrideCalls |-> EmptyRecord]

\* the machine the caller is working on, as a record
Own ==
    [id |-> 3 - peer.id,
     currentState |-> currentState,
     globalContext |-> globalContext,
     globalLocked |-> globalLocked,
     privateContexts |-> privateContexts,
     entryWatchers |-> entryWatchers,
     exitWatchers |-> exitWatchers,
     dynamicClearOnExit |-> dynamicClearOnExit,
     handles |-> handles,
     reenterArmed |-> reenterArmed,
     firstGlobal |-> firstGlobal,
     overrideCalls |-> overrideCalls]

\* a binding of the other machine: the shared one if it is at module scope
Bound(name, own, other) == IF name \in ModuleLevel THEN own ELSE other

InitPair ==
    /\ stateDefinitions \in Definitions
    /\ stateMap = BuildStateMap(stateDefinitions, 1, EmptyRecord)
    /\ transitionMap = BuildTransitionMap(stateDefinitions, 1, EmptyRecord)
    /\ currentState = initialState(stateDefinitions)
    /\ globalContext = EmptyObject
    /\ globalLocked = FALSE
    /\ privateContexts = EmptyRecord
    /\ entryWatchers = EmptyRecord
    /\ exitWatchers = EmptyRecord
    /\ dynamicClearOnExit = EmptyRecord
    /\ handles = <<>>
    /\ reenterArmed = TRUE
    /\ firstGlobal = Undefined
    /\ overrideCalls = EmptyRecord
    /\ steps = 0
    /\ lastOp = NoOp
    /\ calls = <<>>
    /\ peer = Instance(2, stateDefinitions)
    /\ CliOff
    /\ reactiveProxies = EmptyRecord

switch ==
    /\ Tick
    /\ peer # NoMachine
    /\ peer' = Own
    /\ currentState' = Bound("currentState", currentState, peer.currentState)
    /\ globalContext' = Bound("globalContext", globalContext, peer.globalContext)
    /\ globalLocked' = Bound("globalLocked", globalLocked, peer.globalLocked)
    /\ privateContexts' = Bound("privateContexts", privateContexts, peer.privateContexts)
    /\ entryWatchers' = Bound("entryWatchers", entryWatchers, peer.entryWatchers)
    /\ exitWatchers' = Bound("exitWatchers", exitWatchers, peer.exitWatchers)
    /\ dynamicClearOnExit' =
          Bound("dynamicClearOnExit", dynamicClearOnExit, peer.dynamicClearOnExit)
    /\ handles' = peer.handles
    /\ reenterArmed' = peer.reenterArmed
    /\ firstGlobal' = peer.firstGlobal
    /\ overrideCalls' = peer.overrideCalls
    /\ lastOp' = NoOp
    /\ calls' = <<>>
    /\ UNCHANGED <<cliVars, stateDefinitions, stateMap, transitionMap, reactiveProxies>>

\* ---------------------------------------------------------------- construction
\* createMachine(id, builder) itself, from the point where the builder has
\* returned: the builder's result is any short sequence of declarations.
StateDeclarations ==
    {state(n, ts, DefaultOptions) : n \in {"start", "end"},
                                   ts \in {<<>>, <<on("NEXT", "end")>>,
                                           <<on("NEXT", "end"), on("NEXT", "start")>>}}

BuilderResults ==
    Definitions \cup UNION {[1..n -> StateDeclarations] : n \in 0..MaxDeclarations}

\* const stateDefinitions = builder({ state })
InitCreate ==
    /\ stateDefinitions \in BuilderResults
    /\ stateMap = EmptyRecord
    /\ transitionMap = EmptyRecord
    /\ currentState = Undefined
    /\ globalContext = EmptyObject
    /\ globalLocked = FALSE
    /\ privateContexts = EmptyRecord
    /\ entryWatchers = EmptyRecord
    /\ exitWatchers = EmptyRecord
    /\ dynamicClearOnExit = EmptyRecord
    /\ handles = <<>>
    /\ reenterArmed = TRUE
    /\ firstGlobal = Undefined
    /\ overrideCalls = EmptyRecord
    /\ steps = 0
    /\ lastOp = NoOp
    /\ calls = <<>>
    /\ peer = NoMachine
    /\ CliOff
    /\ reactiveProxies = EmptyRecord

\* a machine of one state is refused as well
isEmptyMachine_single(defs) == Len(defs) <= 1

\* stateDefinitions.length === 0
isEmptyMachine(defs) == Len(defs) = 0

\* the rest of the constructor: throw, or build the maps and return the machine
createMachine ==
    /\ lastOp.op = "none"
    /\ IF isEmptyMachine(stateDefinitions)
       THEN /\ lastOp' = [NoOp EXCEPT !.op = "createMachine", !.threw = TRUE]
            /\ UNCHANGED <<stateMap, transitionMap, currentState>>
       ELSE /\ stateMap' = BuildStateMap(stateDefinitions, 1, EmptyRecord)
            /\ transitionMap' = BuildTransitionMap(stateDefinitions, 1, EmptyRecord)
            /\ currentState' = initialState(stateDefinitions)
            /\ lastOp' = [NoOp EXCEPT !.op = "createMachine", !.ok = TRUE]
    /\ UNCHANGED <<cliVars, peer, reactiveProxies,
                   stateDefinitions, globalContext, globalLocked, privateContexts,
                   entryWatchers, exitWatchers, dynamicClearOnExit, handles,
                   reenterArmed, firstGlobal, overrideCalls, steps, calls>>

\* createMachine returned the machine object
returned == lastOp.op # "none" /\ ~(lastOp.op = "createMachine" /\ lastOp.threw)

NextCreate ==
    \/ createMachine
    \/ \E event \in EventInputs : returned /\ transition(event)

SpecCreate == InitCreate /\ [][NextCreate]_vars

\* ---------------------------------------------------------------- specification
Declared == DeclaredNames(stateDefinitions)

\* the states watchers are registered on: the first two declared
Watched == {stateDefinitions[i].name : i \in 1..2}

\* the two mocks are interchangeable: w2 is handed out only after w1
Registered == {handles[i].fn : i \in 1..Len(handles)}
Offered == {fn \in Callbacks : fn = "w2" => "w1" \in Registered}

\* context values are opaque: c2 is passed only while some state holds c1
Held == {privateContexts[k] : k \in DOMAIN privateContexts}
ContextOffered == {c \in ContextValues : c = "c2" => "c1" \in Held}

\* global contexts are opaque: the first call passes the first value
GlobalOffered == IF firstGlobal = Undefined THEN {"{user:will}"} ELSE GlobalValues

Next ==
    \/ \E event \in EventInputs : transition(event)
    \/ \E ctx \in GlobalOffered : setGlobalOnly(ctx)
    \/ \E s \in Declared, ctx \in ContextOffered : setContext(s, ctx)
    \/ \E event \in Events, b \in BOOLEAN : setClearContextOnExit(event, b)
    \/ \E s \in Watched, fn \in Offered : watchEntry(s, fn)
    \/ \E fn \in Offered : watchEntryGlobal(fn)
    \/ \E s \in Watched, fn \in Offered : watchExit(s, fn)
    \/ \E i \in 1..Len(handles) : unsubscribeEntry(i)
    \/ \E i \in 1..Len(handles) : unsubscribeEntryGlobal(i)
    \/ \E i \in 1..Len(handles) : unsubscribeExit(i)

Spec == Init /\ [][Next]_vars

NextReact ==
    \/ Next
    \/ useMachine

SpecReact == Init /\ [][NextReact]_vars

\* callers that also register cancelling callbacks
NextCancel ==
    \/ Next
    \/ \E s \in Watched : watchExit(s, "canceller")
    \/ \E s \in Watched : watchEntry(s, "canceller")
    \/ watchEntryGlobal("canceller")

SpecCancel == Init /\ [][NextCancel]_vars

NextPair ==
    \/ Next
    \/ switch

SpecPair == InitPair /\ [][NextPair]_vars

\* the context argument of currentState.transition: none, or a value
ContextArguments == ContextValues \cup {Undefined}

NextCore ==
    \/ \E event \in EventInputs : core_transition(event)
    \/ \E event \in EventInputs, ctx \in ContextArguments :
          currentStateProxy_transition(event, ctx)
    \/ \E s \in Declared, ctx \in ContextOffered : setContext(s, ctx)
    \/ \E s \in Watched, fn \in Offered : watchEntry(s, fn)
    \/ \E s \in Watched, fn \in Offered : watchExit(s, fn)
    \/ \E i \in 1..Len(handles) : core_unsubscribeEntry(i)
    \/ \E i \in 1..Len(handles) : unsubscribeExit(i)

SpecCore == InitCore /\ [][NextCore]_vars

\* ---------------------------------------------------------------- the builder's declarations
\* What the builder declared, read off stateDefinitions directly.
DefIndex(s) == CHOOSE i \in 1..Len(stateDefinitions) : stateDefinitions[i].name = s

EdgeIndexes(s, event) ==
    IF s \notin Declared THEN {}
    ELSE {j \in 1..Len(stateDefinitions[DefIndex(s)].transitions) :
            stateDefinitions[DefIndex(s)].transitions[j].event = event}

DeclaredEdge(s, event) == EdgeIndexes(s, event) # {}

\* the target of the last declaration of event in state s
DeclaredTarget(s, event) ==
    LET js == EdgeIndexes(s, event)
        last == CHOOSE j \in js : \A k \in js : k <= j
    IN  stateDefinitions[DefIndex(s)].transitions[last].target

DeclaredClearOnExit(s) ==
    LET o == stateDefinitions[DefIndex(s)].options
    IN  "clearOnExit" \in DOMAIN o /\ o.clearOnExit

CallIndexes == 1..Len(calls)
WatcherReentered == \E i \in CallIndexes : calls[i].did = "reenter"

\* the entry and wildcard watchers the outermost call itself invoked
EntryPhase == {i \in CallIndexes : calls[i].frame = 1 /\ calls[i].kind \in {"entry", "global"}}
\* an exception left the call while its exit watchers were running
ExitDispatchThrew == lastOp.threw /\ EntryPhase = {}
\* one of the call's own entry or wildcard watchers called transition
EntryWatcherReentered == \E i \in EntryPhase : calls[i].did = "reenter"

\* ---------------------------------------------------------------- C1
\* C1: right after createMachine returns (no call made yet), machine.current
\* is the name of the first declared state.
C1_InitialIsFirstDeclared ==
    steps = 0 => current = Head(stateDefinitions).name

C1_Witness ==
    /\ steps = 0
    /\ Len(stateDefinitions) > 1
    /\ current = "start"

\* ---------------------------------------------------------------- C2
\* C2 as stated: whenever transition(event) was called in a state for which the
\* builder declared a target for that event, the call ends with current equal
\* to that target.
C2_AsStated ==
    (lastOp.op = "transition" /\ DeclaredEdge(lastOp.from, lastOp.event))
        => current = DeclaredTarget(lastOp.from, lastOp.event)

\* C2, where the engine's guard lets the edge through: whenever
\* transition(event) was called in a state for which the builder declared a
\* target that is the non-empty name of a declared state,
\* the call ends with current equal to that target, whatever the contexts,
\* overrides and history are, provided no exception is raised while the exit
\* watchers run and none of the call's entry or wildcard watchers calls
\* transition again.
C2_TransitionReachesDeclaredTarget ==
    ( /\ lastOp.op = "transition"
      /\ DeclaredEdge(lastOp.from, lastOp.event)
      /\ DeclaredTarget(lastOp.from, lastOp.event) \in Declared \ {""}
      /\ ~ExitDispatchThrew
      /\ ~EntryWatcherReentered )
        => current = DeclaredTarget(lastOp.from, lastOp.event)

C2_Witness ==
    /\ lastOp.op = "transition"
    /\ DeclaredEdge(lastOp.from, lastOp.event)
    /\ DeclaredTarget(lastOp.from, lastOp.event) \in Declared \ {""}
    /\ ~ExitDispatchThrew /\ ~EntryWatcherReentered
    /\ current # lastOp.from
    /\ calls # <<>>
    /\ DOMAIN privateContexts # {}
    /\ DOMAIN dynamicClearOnExit # {}

\* ---------------------------------------------------------------- C3
\* C3: for every (state, event) the builder declared no edge for (unknown
\* event, unknown state, sink state) can(state, event) is false, and a
\* transition(event) call made while current is that state leaves current
\* unchanged and does not throw.
QueriedStates == StateNames \cup {"nowhere"}

C4_GlobalIsFirstWrite ==
    globalContext = IF firstGlobal = Undefined THEN EmptyObject ELSE firstGlobal

C4_Witness ==
    /\ lastOp.op = "setGlobalOnly"
    /\ firstGlobal # Undefined
    /\ lastOp.arg # firstGlobal

\* ---------------------------------------------------------------- C5
Returned == lastOp.op = "transition" /\ lastOp.ok /\ ~lastOp.threw

\* C5: after a successful transition out of a state declared with
\* clearOnExit: true, on an event that has no dynamic override, that state
\* holds no private context.
C5_StaticClearOnExit ==
    ( /\ Returned
      /\ DeclaredClearOnExit(lastOp.from)
      /\ lastOp.event \notin DOMAIN overrideCalls )
        => getContext(lastOp.from) = Undefined

\* ---------------------------------------------------------------- C6
\* C6: after a successful transition on an event E that has a dynamic
\* override, the exited state's private context is unset if the override is
\* true, whatever the state's static clearOnExit is; if the override is false
\* it is the context the state held before the call (looked at when no watcher
\* of the call started another transition, which decides for itself).
C6_OverrideWins ==
    ( /\ Returned
      /\ lastOp.event \in DOMAIN overrideCalls )
        => IF overrideCalls[lastOp.event]
           THEN getContext(lastOp.from) = Undefined
           ELSE ~WatcherReentered => getContext(lastOp.from) = lastOp.held

\* ---------------------------------------------------------------- C7
\* the decision the claim describes: the argument of the last
\* setClearContextOnExit call for the event if there was one, otherwise the
\* exited state's static option
ClaimedClear(s, event) ==
    IF event \in DOMAIN overrideCalls THEN overrideCalls[event] ELSE DeclaredClearOnExit(s)

\* C7: an override is keyed by event only and persists: every successful
\* transition, from whatever state and however many calls after the last
\* setClearContextOnExit for its event, clears the exited state's context when
\* that last call said so and keeps it when that call said not to, and follows
\* the static option when there was no such call for its event. (Kept is
\* looked at when no watcher of the call started another transition.)
C7_OverridePersistsPerEvent ==
    Returned =>
        IF ClaimedClear(lastOp.from, lastOp.event)
        THEN getContext(lastOp.from) = Undefined
        ELSE ~WatcherReentered => getContext(lastOp.from) = lastOp.held

InvocationsOf(i) == Cardinality({k \in CallIndexes : calls[k].id = i})
WatcherThrew == \E k \in CallIndexes : calls[k].did = "throw"

\* the registration i is one the claim says the call must invoke: its handle
\* was not called and it watches the entry of the state entered or the exit
\* of the state left
MustFire(i) ==
    /\ lastOp.ok
    /\ ~handles[i].called
    /\ \/ handles[i].kind = "entry" /\ handles[i].state = current
       \/ handles[i].kind = "exit" /\ handles[i].state = lastOp.from

\* C9: in a transition call (taken here without throwing or re-entering
\* watchers) every entry watcher of the entered state and every exit watcher
\* of the left state whose unsubscribe handle was not called is invoked
\* exactly once, and no other entry or exit watcher is invoked: not on an
\* invalid transition, not on another state, not after its handle was called.
C9_WatcherFiresUntilUnsubscribed ==
    (lastOp.op = "transition" /\ ~WatcherThrew /\ ~WatcherReentered)
        => \A i \in 1..Len(handles) :
              handles[i].kind \in {"entry", "exit"}
                  => InvocationsOf(i) = IF MustFire(i) THEN 1 ELSE 0

\* ---------------------------------------------------------------- C10
\* C10: within one dispatch (the exit watchers, or the entry watchers, that
\* one transition call runs for a state) watchers are invoked in the order
\* in which they were registered.
C10_RegistrationOrder ==
    \A a, b \in CallIndexes :
        ( /\ a < b
          /\ calls[a].frame = calls[b].frame
          /\ calls[a].kind = calls[b].kind
          /\ calls[a].kind \in {"entry", "exit"} )
            => calls[a].id < calls[b].id

C10_Witness ==
    /\ lastOp.op = "transition" /\ lastOp.ok
    /\ \E a, b \in CallIndexes :
          /\ a < b
          /\ calls[a].frame = calls[b].frame
          /\ calls[a].kind = "entry" /\ calls[b].kind = "entry"
          /\ calls[a].fn = "w1" /\ calls[b].fn = "w2"

\* ---------------------------------------------------------------- C11
\* the call entered a state and none of its watchers threw or re-entered
Entered == lastOp.op = "transition" /\ lastOp.ok /\ ~WatcherThrew /\ ~WatcherReentered

EntryHandlesOn(s) ==
    {i \in 1..Len(handles) : handles[i].kind = "entry" /\ handles[i].state = s}

\* C11: calling the handle returned by watchEntry(S, W1) removes exactly W1:
\* on every later entry into S, W1's registration is not invoked and every
\* registration of another callback W2 on S (made before or after W1's) whose
\* own handle was not called is invoked once.
C11_EntryUnsubscribeRemovesOne ==
    Entered =>
        \A i, j \in EntryHandlesOn(current) :
            (handles[i].called /\ ~handles[j].called /\ handles[j].fn # handles[i].fn)
                => InvocationsOf(i) = 0 /\ InvocationsOf(j) = 1

\* ---------------------------------------------------------------- C12
\* C12: invoking an unsubscribe handle (from watchEntry, watchEntryGlobal or
\* watchExit) that was already invoked before, at any later point and whatever
\* was registered in between, leaves every watcher list as it was.
C12_UnsubscribeIdempotent ==
    [][\A i \in 1..Len(handles) :
          ( /\ handles[i].called
            /\ unsubscribeEntry(i) \/ unsubscribeEntryGlobal(i) \/ unsubscribeExit(i) )
              => UNCHANGED <<entryWatchers, exitWatchers>>]_vars

C15_EmptyMachineIsRefused ==
    lastOp.op = "createMachine" =>
        /\ lastOp.threw <=> Len(stateDefinitions) = 0
        /\ lastOp.threw =>
              current = Undefined /\ stateMap = EmptyRecord /\ transitionMap = EmptyRecord
        /\ ~lastOp.threw =>
              current = stateDefinitions[1].name /\ DOMAIN stateMap = Declared

C15_Witness ==
    /\ lastOp.op = "createMachine"
    /\ lastOp.threw
    /\ stateDefinitions = <<>>

\* ---------------------------------------------------------------- C16
\* C16: a transition(event) call made while the table has no target for
\* event from the current state changes nothing (current, every private
\* context, globalContext, every dynamic override), invokes no watcher and
\* returns without throwing.
C16_InvalidTransitionChangesNothing ==
    [][( /\ lastOp'.op = "transition"
         /\ ~DeclaredEdge(currentState, lastOp'.event) )
          => /\ UNCHANGED <<currentState, privateContexts, globalContext,
                            dynamicClearOnExit>>
             /\ calls' = <<>>
             /\ ~lastOp'.threw]_vars

C16_Witness ==
    /\ lastOp.op = "transition"
    /\ ~DeclaredEdge(lastOp.from, lastOp.event)
    /\ MapGet(privateContexts, current) # Undefined
    /\ lastOp.event \in DOMAIN dynamicClearOnExit
    /\ dynamicClearOnExit[lastOp.event]
    /\ calls = <<>>

\* ---------------------------------------------------------------- C17
\* C17: the first setGlobalOnly call emits no warning; every later one emits
\* the 'Global context can only be set once' warning, does not throw and is a
\* no-op: globalContext, current, every private context, every watcher list
\* and every override are what they were before the call.
C17_RepeatedGlobalWriteIsNoOp ==
    [][lastOp'.op = "setGlobalOnly"
          => /\ lastOp'.warned <=> (firstGlobal # Undefined)
             /\ ~lastOp'.threw
             /\ firstGlobal # Undefined
                  => /\ UNCHANGED <<globalContext, currentState, privateContexts,
                                    entryWatchers, exitWatchers, dynamicClearOnExit>>
                     /\ calls' = <<>>]_vars

C17_Witness ==
    /\ lastOp.op = "setGlobalOnly"
    /\ lastOp.warned
    /\ lastOp.arg # globalContext
    /\ DOMAIN privateContexts # {}
    /\ handles # <<>>

\* ---------------------------------------------------------------- C18
\* C18: setContext(state, ctx) stores ctx for that state whatever it held
\* before, so that getContext(state) then returns ctx; the call leaves every
\* other state's context, current, globalContext, the watcher lists and the
\* overrides as they were and invokes no watcher (getContext is a read of
\* the store and changes nothing).
C18_SetContextWritesOneState ==
    [][\A s \in Declared, c \in ContextValues :
          setContext(s, c)
             => /\ getContext(s)' = c
                /\ \A t \in StateNames \ {s} : getContext(t)' = getContext(t)
                /\ UNCHANGED <<currentState, globalContext, entryWatchers,
                               exitWatchers, dynamicClearOnExit>>
                /\ calls' = <<>>]_vars

\* two calls were made and a state other than the current one holds the
\* second value: it was stored over the first
C18_Witness ==
    /\ steps = 2
    /\ lastOp = NoOp
    /\ \E s \in Declared :
          s # current /\ privateContexts = MapSet(EmptyRecord, s, "c2")

\* ---------------------------------------------------------------- C19
\* the invocation in which an entry watcher called transition
Reentry == CHOOSE r \in CallIndexes : calls[r].kind = "entry" /\ calls[r].did = "reenter"
EntryReentered ==
    /\ lastOp.op = "transition"
    /\ ~WatcherThrew
    /\ \E r \in CallIndexes : calls[r].kind = "entry" /\ calls[r].did = "reenter"

IdsOf(list) == [i \in 1..Len(list) |-> list[i].id]
\* the invocations made after the re-entering one by the transition call `frame`
InvokedAfterReentry(frame) ==
    IdsOf(SelectSeq(SubSeq(calls, Reentry + 1, Len(calls)), LAMBDA c : c.frame = frame))

\* the state the outer call had entered, the state the nested call leaves
OuterTarget == calls[Reentry].cur
NestedTarget == targetOf(OuterTarget, ReenterEvent)
LeftBehind == IF accepts(NestedTarget) THEN NestedTarget ELSE OuterTarget

\* what a complete nested call invokes: exit, entry, wildcard watchers
NestedDispatch ==
    IF accepts(NestedTarget)
    THEN IdsOf(ListGet(exitWatchers, OuterTarget)
               \o ListGet(entryWatchers, NestedTarget)
               \o ListGet(entryWatchers, watchEntryGlobalHook))
    ELSE <<>>

\* the entry watchers of the outer call still to run, then its wildcard ones
OuterRemaining ==
    LET list == ListGet(entryWatchers, OuterTarget)
        done == Cardinality({k \in 1..Reentry : calls[k].frame = calls[Reentry].frame
                                                 /\ calls[k].kind = "entry"})
    IN  IdsOf(SubSeq(list, done + 1, Len(list))
              \o ListGet(entryWatchers, watchEntryGlobalHook))

\* C19: when an entry watcher calls transition (and no watcher throws), the
\* nested call runs whole (its exit watchers, the state change, its entry and
\* wildcard watchers) before any further watcher of the outer call; the outer
\* call then invokes its remaining entry watchers and its wildcard watchers,
\* and each of them is passed the state and the context the nested call left.
C19_NestedTransitionCompletesFirst ==
    EntryReentered =>
        /\ InvokedAfterReentry(calls[Reentry].frame + 1) = NestedDispatch
        /\ InvokedAfterReentry(calls[Reentry].frame) = OuterRemaining
        /\ \A j, k \in CallIndexes :
              (j > Reentry /\ k > Reentry /\ calls[j].frame > calls[k].frame) => j < k
        /\ current = LeftBehind
        /\ \A k \in CallIndexes :
              (k > Reentry /\ calls[k].frame = calls[Reentry].frame)
                 => /\ calls[k].cur = LeftBehind
                    /\ calls[k].ctx = getContext(LeftBehind)
                    /\ calls[k].kind = "global" => calls[k].state = LeftBehind

C19_Witness ==
    /\ EntryReentered
    /\ current # OuterTarget
    /\ \E k \in CallIndexes :
          k > Reentry /\ calls[k].frame = calls[Reentry].frame /\ calls[k].cur = current

\* ---------------------------------------------------------------- C20
Throws == {k \in CallIndexes : calls[k].did = "throw"}

\* C20: an exception thrown by an exit, entry or wildcard watcher leaves the
\* transition call (the caller sees it), and it is the last invocation the
\* call makes: no watcher is invoked after the one that threw. A call in
\* which no watcher throws does not throw.
C20_WatcherExceptionPropagates ==
    lastOp.op = "transition" =>
        /\ lastOp.threw <=> Throws # {}
        /\ \A k \in Throws : k = Len(calls)

\* a watcher registered after the throwing one, in the same list, was left out
C20_Witness ==
    /\ lastOp.op = "transition"
    /\ lastOp.threw
    /\ \A h \in 1..Len(handles) : ~handles[h].called
    /\ \E k \in Throws, i \in 1..Len(handles) :
          /\ i > calls[k].id
          /\ handles[i].kind = handles[calls[k].id].kind
          /\ handles[i].state = handles[calls[k].id].state
          /\ InvocationsOf(i) = 0

\* ---------------------------------------------------------------- C21
\* what a caller can read of the other machine
PeerView ==
    [current |-> Bound("currentState", currentState, peer.currentState),
     privateContexts |-> Bound("privateContexts", privateContexts, peer.privateContexts),
     globalContext |-> Bound("globalContext", globalContext, peer.globalContext),
     dynamicClearOnExit |->
         Bound("dynamicClearOnExit", dynamicClearOnExit, peer.dynamicClearOnExit),
     entryWatchers |-> Bound("entryWatchers", entryWatchers, peer.entryWatchers),
     exitWatchers |-> Bound("exitWatchers", exitWatchers, peer.exitWatchers)]

OwnView ==
    [current |-> currentState, privateContexts |-> privateContexts,
     globalContext |-> globalContext, dynamicClearOnExit |-> dynamicClearOnExit,
     entryWatchers |-> entryWatchers, exitWatchers |-> exitWatchers]

\* C21: of two machines built from the same id and definition, every call on
\* one (transition, setContext, setGlobalOnly, setClearContextOnExit, the
\* watch calls, the unsubscribe handles) leaves the other's current, private
\* contexts, global context, overrides and watcher lists as they were; and
\* turning to the other machine finds it as it was left.
C21_InstancesAreIndependent ==
    [][IF peer'.id = peer.id
       THEN PeerView' = PeerView
       ELSE PeerView' = OwnView /\ OwnView' = PeerView]_vars

\* the caller works on the second machine, which has just entered a state the
\* first machine has an entry watcher on: no watcher ran, the first machine
\* is where it was
C21_Witness ==
    /\ peer.id = 1
    /\ lastOp.op = "transition" /\ lastOp.ok
    /\ current \in DOMAIN peer.entryWatchers
    /\ peer.entryWatchers[current] # <<>>
    /\ calls = <<>>
    /\ peer.currentState # current

\* ---------------------------------------------------------------- C22
\* the components whose effect is still subscribed (cleanup not run)
Subscribed == {i \in DOMAIN reactiveProxies : ~handles[i].called}

\* C22: after every transition call that took its edge and returned, what
\* useMachine hands a subscribed component is the machine: current is
\* machine.current, context is the private context of that state,
\* globalContext is machine.globalContext.
C22_MirrorTracksMachine ==
    Returned =>
        \A i \in Subscribed :
            /\ useMachine_return(i).current = current
            /\ useMachine_return(i).context = getContext(current)
            /\ useMachine_return(i).globalContext = globalContext

\* the same, while no handle of a wildcard watcher has been called
C22_WhileNoWildcardUnsubscribed ==
    (Returned /\ \A h \in 1..Len(handles) : handles[h].kind = "global" => ~handles[h].called)
        => \A i \in Subscribed :
              /\ useMachine_return(i).current = current
              /\ useMachine_return(i).context = getContext(current)

\* ---------------------------------------------------------------- C23
\* the invocations the call itself made (not those of nested calls)
OwnCalls(kind) == {k \in CallIndexes : calls[k].frame = 1 /\ calls[k].kind = kind}

StepsInOrder ==
    /\ \A x \in OwnCalls("exit") :
          /\ calls[x].cur = lastOp.from
          /\ calls[x].ctx = lastOp.held
          /\ \A e \in OwnCalls("entry") : x < e
    /\ getContext(lastOp.from) =
          IF ClaimedClear(lastOp.from, lastOp.event) THEN Undefined ELSE lastOp.held
    /\ \A e \in OwnCalls("entry") :
          /\ calls[e].cur = DeclaredTarget(lastOp.from, lastOp.event)
          /\ calls[e].ctx = getContext(DeclaredTarget(lastOp.from, lastOp.event))

\* C23: in a successful transition from S to T every exit watcher of S runs
\* first, observing current = S and passed the context S held before the
\* call; then S's context is cleared if clearing applies; then current is T;
\* then T's entry watchers run, each observing current = T and passed T's
\* context.
C23_StepsInOrder == Returned => StepsInOrder

\* the same for calls in which no watcher calls transition
C23_WithoutReentry == (Returned /\ ~WatcherReentered) => StepsInOrder

\* ---------------------------------------------------------------- C24
\* C24: on a successful transition into T (no watcher calling transition)
\* every entry watcher registered on T is invoked, all of them before any
\* wildcard watcher, and each entry watcher and each wildcard watcher is
\* passed T's private context and the name T.
C24_EntryThenWildcard ==
    (Returned /\ ~WatcherReentered) =>
        /\ \A i \in 1..Len(ListGet(entryWatchers, current)) :
              InvocationsOf(entryWatchers[current][i].id) = 1
        /\ \A e \in OwnCalls("entry"), g \in OwnCalls("global") : e < g
        /\ \A k \in OwnCalls("entry") \cup OwnCalls("global") :
              /\ calls[k].ctx = getContext(current)
              /\ calls[k].state = current

\* the same, the state name being looked at for the wildcard watchers only
C24_WildcardGetsTheState ==
    (Returned /\ ~WatcherReentered) =>
        /\ \A i \in 1..Len(ListGet(entryWatchers, current)) :
              InvocationsOf(entryWatchers[current][i].id) = 1
        /\ \A e \in OwnCalls("entry"), g \in OwnCalls("global") : e < g
        /\ \A k \in OwnCalls("entry") \cup OwnCalls("global") :
              /\ calls[k].ctx = getContext(current)
              /\ calls[k].kind = "global" => calls[k].state = current

\* ---------------------------------------------------------------- C25
\* what a transition call that took its edge and returned may have done to
\* the private contexts: nothing to a state other than the one left
OnlyTheExitedState ==
    \A s \in StateNames \ {currentState} : MapGet(privateContexts', s) = getContext(s)

\* the exited state's context is removed when clearing applies and only then
ExitedStateFollowsTheDecision ==
    MapGet(privateContexts', currentState) =
        IF ClaimedClear(currentState, lastOp'.event) THEN Undefined
        ELSE getContext(currentState)

\* C25: a successful transition from S to T (this engine's transition takes
\* no context for T) changes no private context other than S's, which is
\* removed only when clearing applies; so a stored context survives the
\* transitions that do not clear it and is what machine.context returns when
\* its state is entered. Calls whose entry or wildcard watchers start a
\* further transition are left out; the exited state's own entry is looked
\* at when no watcher does.
C25_OtherContextsSurvive ==
    [][(Returned' /\ ~EntryWatcherReentered')
          => /\ OnlyTheExitedState
             /\ ~WatcherReentered' =>
                   /\ ExitedStateFollowsTheDecision
                   /\ currentState' # currentState => context' = getContext(currentState')]_vars

\* the same for calls in which no watcher calls transition
C25_WithoutReentry ==
    [][(Returned' /\ ~WatcherReentered')
          => /\ OnlyTheExitedState
             /\ ExitedStateFollowsTheDecision
             /\ currentState' # currentState => context' = getContext(currentState')]_vars

\* ---------------------------------------------------------------- C26
\* the parts of the machine the claim lists
MachineState == <<currentState, privateContexts, dynamicClearOnExit, entryWatchers, exitWatchers>>

\* C26: if a transition call ends in an exception raised by a watcher, the
\* machine is left as it was before the call: current, the private contexts,
\* the overrides and the watcher lists are unchanged.
C26_FailedCallChangesNothing ==
    [][(lastOp'.op = "transition" /\ lastOp'.threw) => MachineState' = MachineState]_vars

\* the same for an exception raised during the call's own exit dispatch, with
\* no watcher calling transition
C26_ExitDispatchFailure ==
    [][(ExitDispatchThrew' /\ ~WatcherReentered') => MachineState' = MachineState]_vars

\* ---------------------------------------------------------------- C27
\* the registrations of a list other than the one with the given id
Without(list, id) == SelectSeq(list, LAMBDA w : w.id # id)

\* C27: calling the handle returned by watchExit(S, W) (for the first time)
\* removes only that one registration: the exit list of S loses exactly it,
\* keeping any other registration of the same callback W, and the exit lists
\* of other states and all entry lists are unchanged.
C27_ExitUnsubscribeRemovesOne ==
    [][\A i \in 1..Len(handles) :
          (unsubscribeExit(i) /\ ~handles[i].called)
             => /\ ListGet(exitWatchers', handles[i].state)
                      = Without(ListGet(exitWatchers, handles[i].state), i)
                /\ \A s \in StateNames \ {handles[i].state} :
                      ListGet(exitWatchers', s) = ListGet(exitWatchers, s)
                /\ entryWatchers' = entryWatchers]_vars

\* what does hold: the registrations of other callbacks on S, the exit lists
\* of other states and the entry lists are untouched
C27_OtherCallbacksRemain ==
    [][\A i \in 1..Len(handles) :
          unsubscribeExit(i)
             => /\ SelectSeq(ListGet(exitWatchers', handles[i].state),
                             LAMBDA w : w.fn # handles[i].fn)
                      = SelectSeq(ListGet(exitWatchers, handles[i].state),
                                  LAMBDA w : w.fn # handles[i].fn)
                /\ \A s \in StateNames \ {handles[i].state} :
                      ListGet(exitWatchers', s) = ListGet(exitWatchers, s)
                /\ entryWatchers' = entryWatchers]_vars

\* ---------------------------------------------------------------- C28
\* the handles returned by watchEntryGlobal, those of useMachine's effects
\* included
WildcardHandles == {i \in 1..Len(handles) : handles[i].kind = "global"}

\* C28: wildcard entry watchers are independent of each other: when one of
\* two wildcard watchers of a machine was unsubscribed, the other, whose own
\* handle was not called, is invoked on every later state entry, and if it is
\* the watcher of a useMachine its mirror holds machine.current.
C28_WildcardWatchersIndependent ==
    Entered =>
        \A i, j \in WildcardHandles :
            (handles[i].called /\ ~handles[j].called)
                => /\ InvocationsOf(j) = 1
                   /\ j \in DOMAIN reactiveProxies => useMachine_return(j).current = current

\* while no wildcard handle was called, every wildcard watcher is invoked on a
\* state entry and every mirror holds machine.current
C28_WhileNoneUnsubscribed ==
    (Entered /\ \A i \in WildcardHandles : ~handles[i].called)
        => \A j \in WildcardHandles :
              /\ InvocationsOf(j) = 1
              /\ j \in DOMAIN reactiveProxies => useMachine_return(j).current = current

\* ---------------------------------------------------------------- C29
\* the builder declared event more than once for state s (s itself being
\* declared once)
DeclaredTwice(s, event) ==
    /\ Cardinality({i \in 1..Len(stateDefinitions) : stateDefinitions[i].name = s}) = 1
    /\ Cardinality(EdgeIndexes(s, event)) > 1

\* the target of the first declaration of event in state s
FirstDeclaredTarget(s, event) ==
    LET js == EdgeIndexes(s, event)
        first == CHOOSE j \in js : \A k \in js : j <= k
    IN  stateDefinitions[DefIndex(s)].transitions[first].target

\* C29: when the builder declares the same event more than once for one
\* state, construction neither throws nor warns, and the transition table,
\* can, toXStateJSON and transition all use the target of the last
\* declaration: a transition call on that event is taken exactly when that
\* target is the non-empty name of a declared state, and then ends there.
C29_LastDeclarationWins ==
    \A s \in StateNames, event \in Events :
        (DeclaredTwice(s, event) /\ lastOp.op # "none")
            => /\ lastOp.op = "createMachine" => lastOp.ok /\ ~lastOp.threw /\ ~lastOp.warned
               /\ returned
               /\ targetOf(s, event) = DeclaredTarget(s, event)
               /\ can(s, event)
               /\ \A id \in MachineIds :
                     toXStateJSON(id).states[s].on[event] = DeclaredTarget(s, event)
               /\ (lastOp.op = "transition" /\ lastOp.from = s /\ lastOp.event = event)
                     => /\ lastOp.ok <=> DeclaredTarget(s, event) \in Declared \ {""}
                        /\ lastOp.ok => current = DeclaredTarget(s, event)
                        /\ ~lastOp.threw

\* a transition on an event declared twice, both targets being declared
\* states, ended in the second
C29_Witness ==
    /\ lastOp.op = "transition" /\ lastOp.ok
    /\ DeclaredTwice(lastOp.from, lastOp.event)
    /\ FirstDeclaredTarget(lastOp.from, lastOp.event) \in Declared
    /\ FirstDeclaredTarget(lastOp.from, lastOp.event) # DeclaredTarget(lastOp.from, lastOp.event)
    /\ current = DeclaredTarget(lastOp.from, lastOp.event)
    /\ can(lastOp.from, lastOp.event)

\* ---------------------------------------------------------------- C30
\* C30: in every reachable state current is the name of a declared state,
\* and so is the current every watcher invoked by the last transition call
\* found the machine in (in the middle of a dispatch, nested calls made by
\* watchers included); a transition call on a declared edge whose target was
\* never declared as a state is not taken: it invokes no watcher and leaves
\* current where it was.
C30_CurrentIsDeclared ==
    /\ current \in Declared
    /\ \A k \in CallIndexes : calls[k].cur \in Declared
    /\ ( /\ lastOp.op = "transition"
         /\ DeclaredEdge(lastOp.from, lastOp.event)
         /\ DeclaredTarget(lastOp.from, lastOp.event) \notin Declared )
          => ~lastOp.ok /\ calls = <<>> /\ current = lastOp.from

\* an edge to an undeclared state was refused after a call in which a watcher
\* had moved the machine
C30_Witness ==
    /\ lastOp.op = "transition"
    /\ DeclaredEdge(lastOp.from, lastOp.event)
    /\ DeclaredTarget(lastOp.from, lastOp.event) \notin Declared
    /\ current = lastOp.from
    /\ handles # <<>>
    /\ ~reenterArmed

\* ---------------------------------------------------------------- C31
\* C31: can and transition agree: a transition(e) call made while current is
\* s takes its edge (runs the exit dispatch of s and assigns the declared
\* target to current) exactly when can(s, e) is true, whatever the edge's
\* target is: a declared state, the source state itself, or a name that was
\* never declared as a state.
C31_CanAgreesWithTransition ==
    lastOp.op = "transition" =>
        /\ can(lastOp.from, lastOp.event) <=> lastOp.ok
        /\ (can(lastOp.from, lastOp.event) /\ ~WatcherThrew /\ ~WatcherReentered)
              => current = targetOf(lastOp.from, lastOp.event)

\* one direction holds: an edge transition takes is one can answers true
\* for, and a call for which can answers false leaves current where it was
C31_TakenEdgeIsAllowed ==
    lastOp.op = "transition" =>
        /\ lastOp.ok => can(lastOp.from, lastOp.event)
        /\ ~can(lastOp.from, lastOp.event) => current = lastOp.from /\ calls = <<>>

\* and the two agree on every edge whose target is the non-empty name of a
\* declared state, self loops included
C31_AgreeOnDeclaredTargets ==
    ( /\ lastOp.op = "transition"
      /\ targetOf(lastOp.from, lastOp.event) \in Declared \ {""} )
        => can(lastOp.from, lastOp.event) /\ lastOp.ok

\* ---------------------------------------------------------------- C32
\* C32: every change of current follows a declared edge, also when watchers
\* re-enter the machine: each assignment made to currentState by the last
\* transition call or by a call nested in it, if it changed the value from X
\* to Y, has an event e with an edge (X, e) -> Y in the transition table.
C32_EveryChangeFollowsAnEdge ==
    \A k \in 1..Len(lastOp.moves) :
        LET X == lastOp.moves[k].from
            Y == lastOp.moves[k].to
        IN  X # Y => \E e \in Events : targetOf(X, e) = Y

\* it holds for the calls whose exit watchers do not call transition
C32_WithoutExitReentry ==
    (\A k \in CallIndexes : calls[k].kind = "exit" => calls[k].did # "reenter")
        => \A k \in 1..Len(lastOp.moves) :
              lastOp.moves[k].from # lastOp.moves[k].to
                 => \E e \in Events : targetOf(lastOp.moves[k].from, e) = lastOp.moves[k].to

\* ---------------------------------------------------------------- C33
\* one of the call's own exit watchers called transition
ExitWatcherReentered ==
    \E k \in CallIndexes : calls[k].frame = 1 /\ calls[k].kind = "exit" /\ calls[k].did = "reenter"

\* where the call an exit watcher of the current state makes would lead
ExitNestedTarget == targetOf(currentState, ReenterEvent)

\* C33: when an exit watcher of S calls transition during an outer transition
\* that is leaving S (and the outer call returns), the outer call's clear step
\* applies to S's private context, which is unset when the outer call's
\* clearing applies, and the private context of the state the nested call
\* moved the machine to is not deleted.
C33_ClearUnderReentrancy ==
    [][(Returned' /\ ExitWatcherReentered' /\ accepts(ExitNestedTarget))
          => /\ ExitNestedTarget # currentState
                   => MapGet(privateContexts', ExitNestedTarget) = getContext(ExitNestedTarget)
             /\ shouldClearContext(lastOp'.event, stateMap[currentState])
                   => MapGet(privateContexts', currentState) = Undefined]_vars

\* the exited state's context is the one cleared in every call none of whose
\* watchers calls transition
C33_WithoutReentry ==
    [][(Returned' /\ ~WatcherReentered')
          => /\ \A s \in StateNames \ {currentState} : MapGet(privateContexts', s) = getContext(s)
             /\ shouldClearContext(lastOp'.event, stateMap[currentState])
                   => MapGet(privateContexts', currentState) = Undefined]_vars

\* ---------------------------------------------------------------- C34
\* the state names the wildcard registration j was passed by the last
\* transition call and the calls nested in it, in order
Delivered(j) ==
    LET mine == SelectSeq(calls, LAMBDA c : c.id = j)
    IN  [i \in 1..Len(mine) |-> mine[i].state]

\* the values current took during that call, in order
ValuesOfCurrent == [i \in 1..Len(lastOp.moves) |-> lastOp.moves[i].to]

\* C34: the sequence of state names delivered to a subscribed wildcard entry
\* watcher is the sequence of values taken by current: in a transition call
\* that returns, every assignment to current, by the call or by a call nested
\* in it, results in exactly one invocation of the watcher with that state,
\* in the order of the assignments.
C34_WildcardSeesEveryState ==
    (lastOp.op = "transition" /\ ~WatcherThrew) =>
        \A j \in WildcardHandles :
            ~handles[j].called => Delivered(j) = ValuesOfCurrent

\* it holds when no entry or wildcard watcher of the call starts another
\* transition, while no wildcard handle was called
C34_WithoutEntryReentry ==
    ( /\ lastOp.op = "transition" /\ ~WatcherThrew
      /\ \A k \in CallIndexes : calls[k].kind \in {"entry", "global"} => calls[k].did # "reenter"
      /\ \A i \in WildcardHandles : ~handles[i].called )
        => \A j \in WildcardHandles : Delivered(j) = ValuesOfCurrent

\* ---------------------------------------------------------------- C35
\* C35: a watcher is never invoked after its unsubscribe handle has been
\* called, even when the handle is called by another watcher that runs
\* earlier in the same dispatch for the same state: no invocation made by a
\* transition call is of a registration whose handle had been called by then.
C35_NoInvocationAfterUnsubscribe ==
    \A k \in CallIndexes : ~calls[k].unsubscribed

\* a registration whose handle was called before a transition call starts is
\* not invoked by that call
C35_UnsubscribedBeforeTheCall ==
    [][\A i \in 1..Len(handles) :
          (handles[i].called /\ lastOp'.op = "transition")
             => \A k \in 1..Len(calls') : calls'[k].id # i]_vars

\* ================================================================ the CLI
\* no machine is built by the runs of the command line tool
EngineOff ==
    /\ stateDefinitions = <<>>
    /\ stateMap = EmptyRecord
    /\ transitionMap = EmptyRecord
    /\ currentState = Undefined
    /\ globalContext = EmptyObject
    /\ globalLocked = FALSE
    /\ privateContexts = EmptyRecord
    /\ entryWatchers = EmptyRecord
    /\ exitWatchers = EmptyRecord
    /\ dynamicClearOnExit = EmptyRecord
    /\ handles = <<>>
    /\ reenterArmed = TRUE
    /\ firstGlobal = Undefined
    /\ overrideCalls = EmptyRecord
    /\ steps = 0
    /\ lastOp = NoOp
    /\ calls = <<>>
    /\ peer = NoMachine
    /\ reactiveProxies = EmptyRecord

\* ---------------------------------------------------------------- VisualizerServer
MaxClock == 3       \* readings of Date.now() that advance the clock per run
MaxInFlight == 2    \* messages in flight to one page

\* crypto.randomBytes(16).toString("hex"), and the ?token= a page was opened with
Tokens == {"t1", "t2"}
\* the browser pages running useWebSocket
Pages == {1, 2}
\* arrays of StateFileInfo, by the machine names they hold
MachineLists == {<<>>, <<"m1">>, <<"m1", "m2">>}

\* VisualizerMessage.data: StateFileInfo[] | string
ArrayData(list) == [kind |-> "array", value |-> list]
StringData(s) == [kind |-> "string", value |-> s]
\* Array.isArray(message.data)
IsArray(data) == data.kind = "array"

\* { type, data, token: this.token, timestamp: Date.now() }; the timestamp is
\* read by nobody and left out
Message(type, data) == [type |-> type, data |-> data, token |-> token]

\* a page: the ?token= it holds, its WebSocket, the messages on their way to it,
\* whether its ping is on its way to the server, the hook's state, and
\* (history) whether a message holding machine records has reached it
Page(tok) ==
    [token |-> tok, status |-> "closed", inbox |-> <<>>, ping |-> FALSE,
     states |-> <<>>, error |-> Null, obtained |-> FALSE, inClients |-> FALSE]

\* new VisualizerServer(port); the pages are open in browsers, not connected
InitServer ==
    /\ EngineOff
    /\ token \in Tokens
    /\ wss = Null
    /\ currentStates = <<>>
    /\ sockets \in [Pages -> {Page(tok) : tok \in Tokens}]
    /\ cacheDir = EmptyRecord
    /\ clock = 0
    /\ saved = <<>>
    /\ disk = EmptyRecord
    /\ watcherStates = EmptyRecord
    /\ handlers = <<>>
    /\ scan = Null
    /\ published = Null
    /\ latest = EmptyRecord

\* ws.send(JSON.stringify(message)) on an open socket
sendMessage(socket, message) ==
    IF socket.status = "open"
    THEN [socket EXCEPT !.inbox = Append(@, message)]
    ELSE socket

\* start(): this.wss = new WebSocketServer({ port })
start ==
    /\ wss = Null
    /\ wss' = "listening"
    /\ UNCHANGED <<engineVars, token, currentStates, sockets, cacheVars, watcherVars, clock>>

\* stop(): this.wss.close(); this.wss = null. Whether close() also closes the
\* connections that are open depends on the version of the ws package; either
\* way they are not clients of a server created by a later start().
stop(closesClients) ==
    /\ wss # Null
    /\ wss' = Null
    /\ sockets' = [p \in Pages |->
                     IF closesClients
                     THEN [sockets[p] EXCEPT !.status = "closed", !.inbox = <<>>, !.ping = FALSE,
                                             !.inClients = FALSE]
                     ELSE [sockets[p] EXCEPT !.inClients = FALSE]]
    /\ UNCHANGED <<engineVars, token, currentStates, cacheVars, watcherVars, clock>>

\* a page connects: new WebSocket(url); the server's "connection" handler
\* sends initial_data, the page's onopen sends its ping
connection(p) ==
    /\ wss # Null
    /\ sockets[p].status = "closed"
    /\ sockets' = [sockets EXCEPT ![p] =
                      sendMessage([@ EXCEPT !.status = "open", !.ping = TRUE, !.inClients = TRUE],
                                  Message("initial_data", ArrayData(currentStates)))]
    /\ UNCHANGED <<engineVars, token, wss, currentStates, cacheVars, watcherVars, clock>>

\* ws.on("message"): handleClientMessage answers a ping, whatever its token
handleClientMessage(p) ==
    /\ sockets[p].status = "open"
    /\ sockets[p].ping
    /\ Len(sockets[p].inbox) < MaxInFlight
    /\ sockets' = [sockets EXCEPT ![p] =
                      sendMessage([@ EXCEPT !.ping = FALSE],
                                  Message("initial_data", StringData("pong")))]
    /\ UNCHANGED <<engineVars, token, wss, currentStates, cacheVars, watcherVars, clock>>

\* updateStates(states)
updateStates(states) ==
    /\ clock < MaxClock
    /\ clock' = clock + 1
    /\ \A p \in Pages : Len(sockets[p].inbox) < MaxInFlight
    /\ currentStates' = states
    /\ sockets' = [p \in Pages |->
                     IF wss # Null /\ sockets[p].inClients
                     THEN sendMessage(sockets[p], Message("state_update", ArrayData(states)))
                     ELSE sockets[p]]
    /\ UNCHANGED <<engineVars, token, wss, cacheVars, watcherVars>>

\* websocket.onmessage of useWebSocket, for the oldest message in flight
onmessage(p) ==
    LET s == sockets[p]
        message == Head(s.inbox)
        arrived == [s EXCEPT !.inbox = Tail(@),
                             !.obtained = @ \/ (IsArray(message.data)
                                                  /\ message.data.value # <<>>)]
    IN  /\ s.status = "open"
        /\ s.inbox # <<>>
        /\ sockets' = [sockets EXCEPT ![p] =
              IF message.token # s.token
              THEN [arrived EXCEPT !.error = "Invalid token"]
              ELSE IF message.type \in {"initial_data", "state_update"}
                   THEN IF IsArray(message.data)
                        THEN [arrived EXCEPT !.states = message.data.value]
                        ELSE arrived
                   ELSE IF message.type = "error"
                        THEN [arrived EXCEPT !.error = message.data.value]
                        ELSE arrived]
        /\ UNCHANGED <<engineVars, token, wss, currentStates, cacheVars, watcherVars, clock>>

\* the connection of a page closes (tab closed, network): what was in flight
\* is lost; the hook keeps its states
close(p) ==
    /\ sockets[p].status = "open"
    /\ sockets' = [sockets EXCEPT ![p] = [@ EXCEPT !.status = "closed", !.inbox = <<>>,
                                                   !.ping = FALSE, !.inClients = FALSE]]
    /\ UNCHANGED <<engineVars, token, wss, currentStates, cacheVars, watcherVars, clock>>

NextServer ==
    \/ start
    \/ \E closesClients \in BOOLEAN : stop(closesClients)
    \/ \E p \in Pages : connection(p)
    \/ \E p \in Pages : handleClientMessage(p)
    \/ \E states \in MachineLists : updateStates(states)
    \/ \E p \in Pages : onmessage(p)
    \/ \E p \in Pages : close(p)

SpecServer == InitServer /\ [][NextServer]_vars

\* ---------------------------------------------------------------- C36
\* every message in flight carries the token generated at construction
EveryMessageCarriesTheToken ==
    \A p \in Pages : \A k \in 1..Len(sockets[p].inbox) : sockets[p].inbox[k].token = token

\* a page whose token is not the server's has never updated its machine list
ForeignPageShowsNothing ==
    \A p \in Pages : sockets[p].token # token => sockets[p].states = <<>>

\* no message holding machine records has reached a page whose token is not
\* the server's
ForeignPageObtainsNothing ==
    \A p \in Pages : sockets[p].token # token => ~sockets[p].obtained

\* C36: the visualizer channel is token-authenticated: every message the
\* server sends carries the one token generated at construction, a page
\* discards a message whose token differs from its own without updating its
\* machine list, and a page that does not hold the server's token never
\* obtains machine data.
C36_ChannelIsTokenAuthenticated ==
    /\ EveryMessageCarriesTheToken
    /\ ForeignPageShowsNothing
    /\ ForeignPageObtainsNothing

\* the first two parts hold
C36_TokenIsCarriedAndChecked ==
    EveryMessageCarriesTheToken /\ ForeignPageShowsNothing

\* a message whose token differs from the page's own changes nothing but the
\* error shown
C36_MismatchIsDiscarded ==
    [][\A p \in Pages :
          (onmessage(p) /\ Head(sockets[p].inbox).token # sockets[p].token)
             => /\ sockets'[p].states = sockets[p].states
                /\ sockets'[p].error = "Invalid token"]_vars

\* ---------------------------------------------------------------- C37
\* the page is connected and nothing sent to it is still in flight
Settled(p) == sockets[p].status = "open" /\ sockets[p].inbox = <<>>

\* C37: VisualizerServer delivery: a page receives initial_data with the
\* server's current machine list on connecting and every updateStates(states)
\* sends a state_update with that list to every open page; hence, once all
\* sent messages are delivered, the machine list of each connected page is
\* the list of the latest updateStates call (the empty list before any call).
C37_ConnectedPagesShowTheLatestList ==
    \A p \in Pages : Settled(p) => sockets[p].states = currentStates

\* it holds for the pages that hold the server's token and are clients of the
\* server that is listening
C37_TokenHoldersOfTheListeningServer ==
    \A p \in Pages :
        (Settled(p) /\ sockets[p].token = token /\ sockets[p].inClients)
            => sockets[p].states = currentStates

\* on connecting, the message sent is initial_data with the current list
C37_InitialDataOnConnecting ==
    [][\A p \in Pages :
          connection(p) =>
              LET sent == sockets'[p].inbox[Len(sockets'[p].inbox)]
              IN  /\ sent.type = "initial_data"
                  /\ sent.data = ArrayData(currentStates)]_vars

\* while the server listens, updateStates sends a state_update with the new
\* list to each of its open clients
C37_StateUpdateToEveryClient ==
    [][\A states \in MachineLists : \A p \in Pages :
          (updateStates(states) /\ wss # Null /\ sockets[p].inClients)
              => LET sent == sockets'[p].inbox[Len(sockets'[p].inbox)]
                 IN  /\ sent.type = "state_update"
                     /\ sent.data = ArrayData(states)]_vars


\* ------------------------------------------------------------------------
\* CacheManager (cache.ts): cacheDir is the directory node_modules/elevo/.cache
\* as a record file name -> parsed content, clock is Date.now(), saved is the
\* history of the saveCache calls
\* ------------------------------------------------------------------------
MaxSaves == 3
\* cleanOldCache's default keepCount and the slice(0, 10) of getCacheHistory
KeepCount == 10

LatestJson == "latest.json"

CacheEntry(timestamp, states) == [timestamp |-> timestamp, states |-> states]

\* the return value null of getLatestCache
NoCacheEntry == [null |-> TRUE]

\* the constructor: ensureCacheDir() on a project that has no cache yet
InitCache ==
    /\ EngineOff
    /\ token = Null
    /\ wss = Null
    /\ currentStates = <<>>
    /\ sockets = <<>>
    /\ cacheDir = EmptyRecord
    /\ clock = 0
    /\ saved = <<>>
    /\ disk = EmptyRecord
    /\ watcherStates = EmptyRecord
    /\ handlers = <<>>
    /\ scan = Null
    /\ published = Null
    /\ latest = EmptyRecord

\* a millisecond passes
elapse ==
    /\ clock < MaxClock
    /\ clock' = clock + 1
    /\ UNCHANGED <<engineVars, serverVars, cacheVars, watcherVars>>

\* fs.writeFileSync(latestPath, JSON.stringify(cacheEntry)): the only write
writeLatest(dir, cacheEntry) == MapSet(dir, LatestJson, cacheEntry)

\* saveCache(states)
saveCache(states) ==
    LET timestamp == clock
        cacheEntry == CacheEntry(timestamp, states)
    IN  /\ Len(saved) < MaxSaves
        /\ cacheDir' = writeLatest(cacheDir, cacheEntry)
        /\ saved' = Append(saved, cacheEntry)
        /\ UNCHANGED <<engineVars, serverVars, watcherVars, clock>>

\* getLatestCache()
getLatestCache ==
    IF LatestJson \notin DOMAIN cacheDir THEN NoCacheEntry ELSE cacheDir[LatestJson]

\* parseInt(file.replace(".json", "")) of a snapshot file: a snapshot is named
\* after the timestamp it holds
parseInt(dir, file) == dir[file].timestamp

\* readdirSync(...).filter(file => file.endsWith(".json") && file !== "latest.json")
snapshotFiles(dir) == {file \in DOMAIN dir : file # LatestJson}

\* .sort((a, b) => bTime - aTime): newest first
RECURSIVE newestFirst(_, _)
newestFirst(dir, files) ==
    IF files = {} THEN <<>>
    ELSE LET a == CHOOSE f \in files : \A g \in files : parseInt(dir, g) <= parseInt(dir, f)
         IN  <<a>> \o newestFirst(dir, files \ {a})

\* Array.prototype.slice(from)
slice(list, from) == SubSeq(list, from + 1, Len(list))

\* getCacheHistory(): the content of the 10 newest snapshot files
getCacheHistory ==
    LET files == newestFirst(cacheDir, snapshotFiles(cacheDir))
        kept == SubSeq(files, 1, IF Len(files) < KeepCount THEN Len(files) ELSE KeepCount)
    IN  [k \in 1..Len(kept) |-> cacheDir[kept[k]]]

\* cleanOldCache(keepCount)
cleanOldCache(keepCount) ==
    LET files == newestFirst(cacheDir, snapshotFiles(cacheDir))
        filesToDelete == slice(files, keepCount)
        deleted == {filesToDelete[k] : k \in 1..Len(filesToDelete)}
    IN  /\ cacheDir' = [file \in (DOMAIN cacheDir) \ deleted |-> cacheDir[file]]
        /\ UNCHANGED <<engineVars, serverVars, saved, watcherVars, clock>>

NextCache ==
    \/ elapse
    \/ \E states \in MachineLists : saveCache(states)
    \/ \E keepCount \in {0, KeepCount} : cleanOldCache(keepCount)

SpecCache == InitCache /\ [][NextCache]_vars

\* ---------------------------------------------------------------- C38
\* getLatestCache returns the entry of the last save, null before any save
LatestIsTheLastSave ==
    getLatestCache = IF saved = <<>> THEN NoCacheEntry ELSE saved[Len(saved)]

\* the newest saves, at most KeepCount of them, oldest first
NewestSaves ==
    SubSeq(saved, IF Len(saved) > KeepCount THEN Len(saved) - KeepCount + 1 ELSE 1, Len(saved))

\* each of the newest saves has its timestamped snapshot in the history
EverySaveHasASnapshot ==
    \A k \in 1..Len(NewestSaves) :
        \E h \in 1..Len(getCacheHistory) : getCacheHistory[h] = NewestSaves[k]

HistoryIsBounded == Len(getCacheHistory) <= KeepCount

\* C38: every saveCache(states) makes the latest snapshot hold exactly the
\* states of the most recent call (getLatestCache returns the entry of the
\* last save, null before any save) and also persists a timestamped
\* historical snapshot of that save; the history never holds more than the 10
\* newest snapshots.
C38_LatestAndHistory ==
    /\ LatestIsTheLastSave
    /\ EverySaveHasASnapshot
    /\ HistoryIsBounded

\* the latest snapshot and the bound on the history hold
C38_LatestIsKept == LatestIsTheLastSave /\ HistoryIsBounded

\* no snapshot file is ever written
C38_NoSnapshotIsWritten == snapshotFiles(cacheDir) = {}


\* ------------------------------------------------------------------------
\* FileWatcher (watcher.ts): disk is the watched directory (file -> content),
\* watcherStates its Map currentStates in insertion order, handlers the
\* handleFileChange calls suspended at their await, scan the initialScan call,
\* published the list last passed to cache.saveCache and onUpdate, latest the
\* outcome of the latest add/change event of each file that is not removed,
\* clock counts the file system events
\* ------------------------------------------------------------------------
MaxEvents == 4

Files == {"a.state.ts", "b.state.ts"}
\* the order in which glob lists the files
FileOrder == <<"a.state.ts", "b.state.ts">>
\* "broken" is a content that exports no machine
Contents == {"v1", "v2", "broken"}

\* the return value null of parseStateFile
NoStateFileInfo == [null |-> TRUE]
IsNull(parsed) == "null" \in DOMAIN parsed

StateFileInfo(filePath, content) == [filePath |-> filePath, xstateJson |-> content]

\* parseStateFile(filePath) for the content readFileSync returns at the call;
\* a file that is missing makes readFileSync throw, which is caught
parseStateFile(filePath, dir) ==
    IF filePath \notin DOMAIN dir THEN NoStateFileInfo
    ELSE IF dir[filePath] = "broken" THEN NoStateFileInfo
    ELSE StateFileInfo(filePath, dir[filePath])

Range(list) == {list[k] : k \in 1..Len(list)}

\* Map.prototype.set: a key that is present keeps its place
mapSet(map, info) ==
    IF \E k \in 1..Len(map) : map[k].filePath = info.filePath
    THEN [k \in 1..Len(map) |-> IF map[k].filePath = info.filePath THEN info ELSE map[k]]
    ELSE Append(map, info)

\* Map.prototype.delete
RECURSIVE mapDelete(_, _)
mapDelete(map, filePath) ==
    IF map = <<>> THEN <<>>
    ELSE IF Head(map).filePath = filePath THEN mapDelete(Tail(map), filePath)
    ELSE <<Head(map)>> \o mapDelete(Tail(map), filePath)

\* states.forEach(state => this.currentStates.set(state.filePath, state))
RECURSIVE setAll(_, _)
setAll(map, states) ==
    IF states = <<>> THEN map ELSE setAll(mapSet(map, Head(states)), Tail(states))

\* what parseAllStateFiles has to do and has collected, and where initialScan is
Scan(phase, files, results) == [phase |-> phase, files |-> files, results |-> results]

\* findStateFiles: the files glob finds, in its order
RECURSIVE findStateFiles(_, _)
findStateFiles(dir, order) ==
    IF order = <<>> THEN <<>>
    ELSE IF Head(order) \in DOMAIN dir
         THEN <<Head(order)>> \o findStateFiles(dir, Tail(order))
         ELSE findStateFiles(dir, Tail(order))

\* new FileWatcher(parser, cache, onUpdate).start(path) on an empty directory;
\* files that exist at the start arrive as add events before ready
InitWatcher ==
    /\ EngineOff
    /\ token = Null
    /\ wss = Null
    /\ currentStates = <<>>
    /\ sockets = <<>>
    /\ cacheDir = EmptyRecord
    /\ clock = 0
    /\ saved = <<>>
    /\ disk = EmptyRecord
    /\ watcherStates = <<>>
    /\ handlers = {}
    /\ scan = Scan("waiting", <<>>, <<>>)
    /\ published = <<>>
    /\ latest = EmptyRecord

\* this.cache.saveCache(allStates); this.onUpdate(allStates)
publish(allStates) ==
    /\ cacheDir' = writeLatest(cacheDir, CacheEntry(clock, allStates))
    /\ published' = allStates

\* a file is written: chokidar emits add or change and handleFileChange runs
\* up to its await, parseStateFile having read the content
handleFileChange(filePath, content) ==
    LET written == MapSet(disk, filePath, content)
        parsed == parseStateFile(filePath, written)
    IN  /\ clock < MaxEvents
        /\ clock' = clock + 1
        /\ disk' = written
        /\ handlers' = handlers \cup {[filePath |-> filePath, parsed |-> parsed]}
        /\ latest' = MapSet(latest, filePath, parsed)
        /\ UNCHANGED <<engineVars, serverVars, cacheVars, watcherStates, scan, published>>

\* the rest of handleFileChange, once the parse of handler h has resolved
handleFileChange_resume(h) ==
    LET allStates == IF IsNull(h.parsed) THEN mapDelete(watcherStates, h.filePath)
                     ELSE mapSet(watcherStates, h.parsed)
    IN  /\ h \in handlers
        /\ handlers' = handlers \ {h}
        /\ watcherStates' = allStates
        /\ publish(allStates)
        /\ UNCHANGED <<engineVars, serverVars, saved, disk, scan, latest, clock>>

\* a file is deleted: chokidar emits unlink and handleFileRemove runs
handleFileRemove(filePath) ==
    LET allStates == mapDelete(watcherStates, filePath)
    IN  /\ clock < MaxEvents
        /\ clock' = clock + 1
        /\ filePath \in DOMAIN disk
        /\ disk' = MapDelete(disk, filePath)
        /\ latest' = MapDelete(latest, filePath)
        /\ watcherStates' = allStates
        /\ publish(allStates)
        /\ UNCHANGED <<engineVars, serverVars, saved, handlers, scan>>

\* ready: initialScan starts and parseAllStateFiles lists the files
initialScan ==
    /\ scan.phase = "waiting"
    /\ scan' = Scan("parsing", findStateFiles(disk, FileOrder), <<>>)
    /\ UNCHANGED <<engineVars, serverVars, cacheVars, disk, watcherStates, handlers,
                   published, latest, clock>>

\* parseAllStateFiles: the parse of the next file
parseAllStateFiles_next ==
    /\ scan.phase = "parsing"
    /\ scan.files # <<>>
    /\ LET parsed == parseStateFile(Head(scan.files), disk)
       IN  scan' = Scan("parsing", Tail(scan.files),
                        IF IsNull(parsed) THEN scan.results ELSE Append(scan.results, parsed))
    /\ UNCHANGED <<engineVars, serverVars, cacheVars, disk, watcherStates, handlers,
                   published, latest, clock>>

\* the rest of initialScan, once parseAllStateFiles has resolved
initialScan_resume ==
    LET states == scan.results
    IN  /\ scan.phase = "parsing"
        /\ scan.files = <<>>
        /\ scan' = Scan("done", <<>>, <<>>)
        /\ watcherStates' = setAll(<<>>, states)
        /\ IF Len(states) > 0 THEN publish(states) ELSE UNCHANGED <<cacheDir, published>>
        /\ UNCHANGED <<engineVars, serverVars, saved, disk, handlers, latest, clock>>

\* the handleFileChange calls that can be suspended
Suspended ==
    {[filePath |-> filePath,
      parsed |-> parseStateFile(filePath, MapSet(EmptyRecord, filePath, content))] :
        filePath \in Files, content \in Contents}

\* the watcher when each handler finishes before the next event arrives
NextInTurn ==
    \/ \E h \in Suspended : handleFileChange_resume(h)
    \/ parseAllStateFiles_next
    \/ initialScan_resume
    \/ /\ handlers = {}
       /\ scan.phase # "parsing"
       /\ \/ \E filePath \in Files : \E content \in Contents :
                 handleFileChange(filePath, content)
          \/ \E filePath \in Files : handleFileRemove(filePath)
          \/ initialScan

SpecInTurn == InitWatcher /\ [][NextInTurn]_vars

NextWatcher ==
    \/ \E filePath \in Files : \E content \in Contents : handleFileChange(filePath, content)
    \/ \E h \in Suspended : handleFileChange_resume(h)
    \/ \E filePath \in Files : handleFileRemove(filePath)
    \/ initialScan
    \/ parseAllStateFiles_next
    \/ initialScan_resume

SpecWatcher == InitWatcher /\ [][NextWatcher]_vars

\* ---------------------------------------------------------------- C39
\* no handleFileChange call and no initialScan call is suspended
Quiescent == handlers = {} /\ scan.phase # "parsing"

\* the records of the files whose latest add/change event parsed
LatestRecords == {latest[f] : f \in {g \in DOMAIN latest : ~IsNull(latest[g])}}

\* C39: once all in-flight handlers have finished, the list last published
\* holds exactly one record per watched file whose latest add/change event
\* parsed, that record being the parse result of that event, and no record
\* of a removed file or of a file whose latest parse failed, however the
\* add/change handlers, the unlink handlers and the initial scan interleave.
C39_PublishedIsTheLatest ==
    Quiescent => /\ Range(published) = LatestRecords
                 /\ Len(published) = Cardinality(LatestRecords)

\* every handler publishes the content of the Map at that moment
C39_HandlersPublishTheMap ==
    [][(published' # published) => published' = watcherStates']_vars

====
